---- MODULE Spec2Model ----
(***************************************************************************)
(* Quiz session lifecycle and progress aggregation of certquest:           *)
(* the route handlers of server/routes.ts over the store of                *)
(* server/storage.ts and the tables of shared/schema.ts.                   *)
(*                                                                         *)
(* In Spec, SpecWide, SpecDeep and SpecFail a handler runs after its      *)
(* middleware chain (authenticateToken, validateBody/validateParams,       *)
(* csrfProtection) has let the request through, so `u` is an existing      *)
(* user and the body satisfies its schema; one request is served at a      *)
(* time and an action is one whole handler, every store call it makes      *)
(* included. In SpecFail a store call may throw. SpecGate puts the chains  *)
(* of server/middleware in front of the handlers. SpecRace serves two      *)
(* requests at once, one awaited store call at a time.                     *)
(*                                                                         *)
(* Rows of a table are kept in insertion order; ids generated by the       *)
(* database (gen_random_uuid) are the row's position in that order.        *)
(* Timestamps (defaultNow, new Date()) are abstracted to Stamp; the        *)
(* orderings by startedAt / answeredAt are the insertion order.            *)
(***************************************************************************)
EXTENDS Integers, Sequences, FiniteSets, TLC

\* ---------------------------------------------------------------- bounds
MaxSessions == 2        \* session rows created in Spec
MaxAnswers == 2         \* answer rows saved in Spec
MaxWideAnswers == 1     \* answer rows saved in SpecWide
MaxDeepAnswers == 8     \* answer rows saved in SpecDeep
MaxFailSessions == 2    \* session rows created in SpecFail
MaxFailAnswers == 2     \* answer rows saved in SpecFail
MaxGateSessions == 1    \* session rows created in SpecGate
MaxGateAnswers == 1     \* answer rows saved in SpecGate
MaxRaceSessions == 2    \* session rows created in SpecRace
MaxRaceAnswers == 2     \* answer rows saved in SpecRace
MaxOwnerAnswers == 2    \* answer rows saved in SpecOwner
MaxClientSessions == 2  \* session rows created in SpecClient
MaxClientAnswers == 2   \* answer rows saved in SpecClient
MaxCompleteRequests == 2 \* completions one client issues for a session
MaxOverlap == 2         \* client operations under way at once in SpecCsrf
MaxTokens == 4          \* csrf tokens issued in SpecCsrf
MaxPending == 2         \* calls of AuthProvider awaiting a response

\* ------------------------------------------------- values of the program
Null == -1          \* SQL NULL / JS null in a nullable integer column
NaN == -2           \* the JS number NaN (Math.round(0 / 0 * 100))
Undefined == -3     \* a JS property set to undefined (dropped by res.json)
UndefinedText == "<undefined>"
Stamp == 1          \* a timestamp that has been set
Absent == -4        \* an optional body field that was not sent

HardCodedCertification == "aws-cloud-practitioner"

\* ------------------------------------------------------ reference data
Users == {"u1", "u2"}
Anon == "anon"
TopicKeys == {"iam", "s3"}
topics ==
  [t \in TopicKeys |->
     [id |-> t,
      certificationId |-> IF t = "iam" THEN "aws-cloud-practitioner"
                                       ELSE "aws-solutions-architect",
      isActive |-> TRUE]]
QuestionKeys == {"q1", "q2"}
questions ==
  [q \in QuestionKeys |->
     [id |-> q,
      topicId |-> "iam",
      correctAnswer |-> IF q = "q1" THEN 2 ELSE 1,
      explanation |-> IF q = "q1" THEN "e1" ELSE "e2",
      isActive |-> TRUE]]

\* the users row of a registered user
UserRow(u) == [id |-> u, email |-> u \o "@mail.io"]

\* csrf tokens: crypto.randomBytes(32) as a small number
NoToken == 0
IssuedToken == 1

\* the request slots of SpecRace and a slot that serves nothing
Requests == {1, 2}
Idle ==
  [pc |-> "idle", user |-> Anon, topicId |-> "", questionId |-> "",
   sessionId |-> 0, selectedAnswer |-> Absent, isCorrect |-> FALSE,
   count |-> 0, answers |-> <<>>, score |-> Null, found |-> {}]

\* ------------------------------------------------------ the browser side
\* quiz-context.tsx initialState; answers maps a question id to the answer
\* chosen, session is a set of 0 or 1 rows
initialState ==
  [questions |-> <<>>, currentQuestionIndex |-> 0, answers |-> <<>>,
   session |-> {}, isLoading |-> FALSE, showExplanation |-> FALSE,
   timeSpent |-> 0]

\* QuizProvider freshly mounted and no results page under it.
\* state: the reducer's state. mounted, results, isLoading: the results
\* page and its two useState cells. effectPending: a render since the
\* effect of the page last ran has changed one of its dependencies.
\* completeRequests: per session id, the POST /api/quiz/:id/complete
\* requests this client has issued.
initialClient ==
  [state |-> initialState, mounted |-> FALSE, effectPending |-> FALSE,
   results |-> {}, isLoading |-> TRUE, completeRequests |-> <<>>]

\* ------------------------------------------------------ request inputs
TopicIds == TopicKeys \cup {"ghost"}
QuestionIds == QuestionKeys \cup {"qx"}
SessionIds == 1..(MaxSessions + 1)

\* quizSessions, userAnswers, userProgress: the tables of that name.
\* storeKeepsNaN: what the store behind IStorage does with a NaN written to
\*   an integer column. The handlers pass the value on unchecked and the
\*   repository does not decide the outcome: the store either keeps it
\*   (TRUE) or rejects the statement, which throws in the handler (FALSE).
\*   Fixed for a run.
\* last: the request served last and its response (see NoResponse).
\* users: the rows of the users table (the credential store).
\* jwtSecret: whether process.env.JWT_SECRET is set. Fixed for a run.
\* csrfToken: req.session.csrfToken of the caller's server-side session,
\*   NoToken until GET /api/csrf-token has stored one.
\* inflight: the requests being served in SpecRace, with the locals their
\*   handlers hold between two store calls (see Idle).
\* request: the request that entered a middleware chain last, as sent
\*   (see NoRequest); set in SpecGate only.
\* client: the browser side of the quiz: the state of QuizProvider, the
\*   results page mounted under it and the requests it has issued (see
\*   initialClient); moves in SpecClient only.
\* auth: the browser side of authentication: the state of AuthProvider,
\*   the token in localStorage and the calls awaiting a response (see
\*   initialAuth); moves in SpecAuth only.
\* ops: the state-changing client operations under way, each between its
\*   token fetch and its request (see initialOps); moves in SpecCsrf only.
VARIABLES quizSessions, userAnswers, userProgress, storeKeepsNaN, last,
          users, jwtSecret, csrfToken, inflight, request,
          client, auth, ops

vars == <<quizSessions, userAnswers, userProgress, storeKeepsNaN, last,
          users, jwtSecret, csrfToken, inflight, request,
          client, auth, ops>>

\* the browser side
clientVars == <<client, auth, ops>>

\* what the handlers of the quiz routes never touch
envVars == <<users, jwtSecret, csrfToken, inflight, request, clientVars>>

\* ------------------------------------------------------------- helpers
\* a faulty total: the time of the last answer instead of the sum
SumTimeLastOnly(rows) ==
  IF rows = <<>> THEN 0 ELSE rows[Len(rows)].timeSpent

RECURSIVE SumTime(_)
SumTime(rows) ==
  IF rows = <<>> THEN 0
  ELSE (IF Head(rows).timeSpent = Null \/ Head(rows).timeSpent = 0
           THEN 0 ELSE Head(rows).timeSpent) + SumTime(Tail(rows))

\* a faulty rounding: truncation instead of rounding to nearest
MathRoundDown(num, den) ==
  IF den = 0 THEN NaN ELSE num \div den

\* Math.round(x) for x = num / den, den > 0: the integer nearest to x, a
\* half going up; NaN for 0 / 0.
MathRound(num, den) ==
  IF den = 0 THEN NaN ELSE (2 * num + den) \div (2 * den)

\* Math.round((correctCount / totalQuestions) * 100)
Score(correctCount, totalQuestions) ==
  MathRound(100 * correctCount, totalQuestions)

\* a faulty comparison: any index from the correct one up counts as right
IsCorrectAtLeast(selectedAnswer, question) ==
  selectedAnswer >= question.correctAnswer

IsCorrect(selectedAnswer, question) ==
  selectedAnswer = question.correctAnswer

\* --------------------------------------------------------------- store
\* a faulty lookup: an unknown id falls back to question q1
getQuestionOrFirst(id) ==
  IF id \in QuestionKeys THEN {questions[id]} ELSE {questions["q1"]}

getQuestion(id) == IF id \in QuestionKeys THEN {questions[id]} ELSE {}

getQuestionsByTopic(topicId) ==
  LET ids == {q \in QuestionKeys :
                questions[q].topicId = topicId /\ questions[q].isActive}
      RECURSIVE list(_)
      list(S) == IF S = {} THEN <<>>
                 ELSE LET q == CHOOSE x \in S : TRUE
                      IN <<questions[q]>> \o list(S \ {q})
  IN list(ids)

\* a faulty lookup: the topic is not part of the filter
getActiveQuizSessionAnyTopic(userId, topicId) ==
  LET hits == {i \in 1..Len(quizSessions) :
                 /\ quizSessions[i].userId = userId
                 /\ quizSessions[i].isActive}
  IN IF hits = {} THEN {}
     ELSE {quizSessions[CHOOSE i \in hits : \A j \in hits : j <= i]}

\* a faulty lookup: completed sessions are returned as well
getActiveQuizSessionAnyState(userId, topicId) ==
  LET hits == {i \in 1..Len(quizSessions) :
                 /\ quizSessions[i].userId = userId
                 /\ quizSessions[i].topicId = topicId}
  IN IF hits = {} THEN {}
     ELSE {quizSessions[CHOOSE i \in hits : \A j \in hits : j <= i]}

\* the newest active session of (userId, topicId), as a set of 0 or 1 rows
getActiveQuizSession(userId, topicId) ==
  LET hits == {i \in 1..Len(quizSessions) :
                 /\ quizSessions[i].userId = userId
                 /\ quizSessions[i].topicId = topicId
                 /\ quizSessions[i].isActive}
  IN IF hits = {} THEN {}
     ELSE {quizSessions[CHOOSE i \in hits : \A j \in hits : j <= i]}

\* foreign key quiz_sessions.topic_id -> topics.id
SessionInsertAllowed(session) == session.topicId \in TopicKeys

NewSessionRow(session, id) ==
  [id |-> id,
   userId |-> session.userId,
   topicId |-> session.topicId,
   currentQuestionIndex |-> session.currentQuestionIndex,
   answers |-> session.answers,
   startedAt |-> Stamp,
   completedAt |-> Null,
   score |-> Null,
   isActive |-> TRUE]

\* a faulty query: the session is not part of the filter
getUserAnswersAnySession(sessionId) == userAnswers

getUserAnswers(sessionId) ==
  SelectSeq(userAnswers, LAMBDA a : a.sessionId = sessionId)

\* foreign key user_answers.session_id -> quiz_sessions.id
AnswerInsertAllowed(answer) == answer.sessionId \in 1..Len(quizSessions)

getTopicProgress(userId, topicId) ==
  LET hits == {i \in 1..Len(userProgress) :
                 /\ userProgress[i].userId = userId
                 /\ userProgress[i].topicId = topicId}
  IN IF hits = {} THEN {}
     ELSE {userProgress[CHOOSE i \in hits : \A j \in hits : i <= j]}

\* a faulty upsert: inserts without looking for an existing row
upsertUserProgressAlwaysInsert(progress) ==
  Append(userProgress, progress @@ [id |-> Len(userProgress) + 1])

\* the table after upsertUserProgress(progress)
upsertUserProgress(progress) ==
  LET existing == getTopicProgress(progress.userId, progress.topicId)
  IN IF existing # {}
        THEN LET e == CHOOSE x \in existing : TRUE
             IN [userProgress EXCEPT ![e.id] = progress @@ [id |-> e.id]]
        ELSE Append(userProgress,
                    progress @@ [id |-> Len(userProgress) + 1])

\* ------------------------------------------------------------ responses
\* `last` is the request served last and the response sent for it: the
\* operation, the caller, the ids and the selected index of the request,
\* the store call that threw while it was served ("" if none did), then
\* the status, the error code and the fields of the JSON body.
NoResponse ==
  [op |-> "none", user |-> Anon,
   topicId |-> "", questionId |-> "", sessionId |-> 0,
   selectedAnswer |-> Absent,
   failed |-> "",
   status |-> 0, code |-> "", message |-> "",
   session |-> {}, isCorrect |-> FALSE, correctAnswer |-> Null,
   explanation |-> "", score |-> Null, correctCount |-> 0,
   totalQuestions |-> 0, answers |-> <<>>, questions |-> <<>>,
   progress |-> <<>>]

Respond(fields) == fields @@ NoResponse

\* -------------------------------------------------------------- handlers

\* a faulty sanitizer: the explanation is left in place
SanitizeAnswerOnly(q) == [q EXCEPT !.correctAnswer = Undefined]

\* GET /api/topics/:topicId/questions
Sanitize(q) ==
  [q EXCEPT !.correctAnswer = Undefined, !.explanation = UndefinedText]

ListQuestions(u, topicId) ==
  /\ last' = Respond([op |-> "questions", user |-> u, topicId |-> topicId,
                      status |-> 200,
                      questions |->
                        [i \in 1..Len(getQuestionsByTopic(topicId)) |->
                           Sanitize(getQuestionsByTopic(topicId)[i])]])
  /\ UNCHANGED <<quizSessions, userAnswers, userProgress, storeKeepsNaN>>

\* POST /api/quiz/start
StartQuiz(u, topicId) ==
  LET existingSession == getActiveQuizSession(u, topicId)
      insert == [userId |-> u, topicId |-> topicId,
                 currentQuestionIndex |-> 0, answers |-> <<>>]
      created == NewSessionRow(insert, Len(quizSessions) + 1)
      req == [op |-> "start", user |-> u, topicId |-> topicId]
  IN IF existingSession # {}
        THEN /\ last' = Respond(req @@ [status |-> 200,
                                        session |-> existingSession])
             /\ UNCHANGED <<quizSessions, userAnswers, userProgress,
                            storeKeepsNaN>>
     ELSE IF ~SessionInsertAllowed(insert)
        THEN /\ last' = Respond(req @@ [status |-> 500,
                                        code |-> "INTERNAL_ERROR",
                                        message |-> "Failed to start quiz"])
             /\ UNCHANGED <<quizSessions, userAnswers, userProgress,
                            storeKeepsNaN>>
     ELSE /\ quizSessions' = Append(quizSessions, created)
          /\ last' = Respond(req @@ [status |-> 201,
                                     session |-> {created}])
          /\ UNCHANGED <<userAnswers, userProgress, storeKeepsNaN>>

\* POST /api/quiz/answer
SubmitAnswer(u, questionId, sessionId, selectedAnswer, timeSpentIn) ==
  LET timeSpent == IF timeSpentIn = Absent THEN 0 ELSE timeSpentIn
      question == getQuestion(questionId)
      req == [op |-> "answer", user |-> u, questionId |-> questionId,
              sessionId |-> sessionId, selectedAnswer |-> selectedAnswer]
  IN IF question = {}
        THEN /\ last' = Respond(req @@ [status |-> 404,
                                        code |-> "QUESTION_NOT_FOUND",
                                        message |-> "Question not found"])
             /\ UNCHANGED <<quizSessions, userAnswers, userProgress,
                            storeKeepsNaN>>
     ELSE
       LET qn == CHOOSE x \in question : TRUE
           isCorrect == IsCorrect(selectedAnswer, qn)
           answer == [userId |-> u, questionId |-> questionId,
                      sessionId |-> sessionId,
                      selectedAnswer |-> selectedAnswer,
                      isCorrect |-> isCorrect, timeSpent |-> timeSpent]
       IN IF ~AnswerInsertAllowed(answer)
             THEN /\ last' = Respond(req @@
                               [status |-> 500,
                                code |-> "INTERNAL_ERROR",
                                message |-> "Failed to submit answer"])
                  /\ UNCHANGED <<quizSessions, userAnswers, userProgress,
                                 storeKeepsNaN>>
          ELSE /\ userAnswers' =
                    Append(userAnswers,
                           answer @@ [id |-> Len(userAnswers) + 1,
                                      answeredAt |-> Stamp])
               /\ quizSessions' =
                    [quizSessions EXCEPT
                       ![sessionId].currentQuestionIndex =
                          Len(getUserAnswers(sessionId)')]
               /\ last' = Respond(req @@
                            [status |-> 200,
                             isCorrect |-> isCorrect,
                             correctAnswer |-> qn.correctAnswer,
                             explanation |-> qn.explanation,
                             session |-> {quizSessions'[sessionId]}])
               /\ UNCHANGED <<userProgress, storeKeepsNaN>>

\* POST /api/quiz/:sessionId/complete
CompleteQuiz(u, sessionId) ==
  LET answers == getUserAnswers(sessionId)
      correctCount == Len(SelectSeq(answers, LAMBDA a : a.isCorrect))
      totalQuestions == Len(answers)
      score == Score(correctCount, totalQuestions)
      req == [op |-> "complete", user |-> u, sessionId |-> sessionId]
  IN IF score = NaN /\ ~storeKeepsNaN
        THEN /\ last' = Respond(req @@
                          [status |-> 500,
                           code |-> "INTERNAL_ERROR",
                           message |-> "Failed to complete quiz"])
             /\ UNCHANGED <<quizSessions, userAnswers, userProgress,
                            storeKeepsNaN>>
     ELSE IF sessionId \notin 1..Len(quizSessions)
        THEN /\ last' = Respond(req @@
                          [status |-> 404,
                           code |-> "SESSION_NOT_FOUND",
                           message |-> "Quiz session not found"])
             /\ UNCHANGED <<quizSessions, userAnswers, userProgress,
                            storeKeepsNaN>>
     ELSE
       LET session == [quizSessions[sessionId] EXCEPT
                         !.completedAt = Stamp,
                         !.score = score,
                         !.isActive = FALSE]
           totalTimeSpent == SumTime(answers)
       IN /\ quizSessions' = [quizSessions EXCEPT ![sessionId] = session]
          /\ userProgress' =
               upsertUserProgress(
                 [userId |-> u,
                  certificationId |-> HardCodedCertification,
                  topicId |-> session.topicId,
                  totalQuestions |-> totalQuestions,
                  completedQuestions |-> totalQuestions,
                  correctAnswers |-> correctCount,
                  bestScore |-> score,
                  lastQuestionIndex |-> totalQuestions,
                  isCompleted |-> TRUE,
                  timeSpent |-> totalTimeSpent])
          /\ last' = Respond(req @@ [status |-> 200,
                                     session |-> {session},
                                     score |-> score,
                                     correctCount |-> correctCount,
                                     totalQuestions |-> totalQuestions,
                                     answers |-> answers])
          /\ UNCHANGED <<userAnswers, storeKeepsNaN>>

\* ------------------------------------------ handlers over a failing store
\* A handler is given `failing`, the store call that throws if the handler
\* makes it ("none": no call throws). The error thrown is
\* new Error(StoreErrorText).
StoreErrorText == "Database connection failed"

\* a faulty catch block: the error's own text is sent to the caller
CatchLeaking(req, failing, message) ==
  Respond(req @@ [failed |-> failing, status |-> 500,
                  code |-> "INTERNAL_ERROR", message |-> StoreErrorText])

\* catch (error) { console.error(...); res.status(500).json({message, code}) }
Catch(req, failing, message) ==
  Respond(req @@ [failed |-> failing, status |-> 500,
                  code |-> "INTERNAL_ERROR", message |-> message])

getUserProgress(userId, certificationId) ==
  SelectSeq(userProgress, LAMBDA p : /\ p.userId = userId
                                     /\ p.certificationId = certificationId)

\* a faulty completion: the row stays active
completeQuizSessionStillActive(sessionId, score) ==
  [quizSessions EXCEPT ![sessionId].completedAt = Stamp,
                       ![sessionId].score = score]

\* the table after completeQuizSession(sessionId, score) on an existing row
completeQuizSession(sessionId, score) ==
  [quizSessions EXCEPT ![sessionId].completedAt = Stamp,
                       ![sessionId].score = score,
                       ![sessionId].isActive = FALSE]

\* GET /api/progress/:certificationId
GetProgress(u, certificationId, failing) ==
  LET req == [op |-> "progress", user |-> u]
  IN /\ last' = IF failing = "getUserProgress"
                   THEN Catch(req, failing, "Failed to get progress")
                   ELSE Respond(req @@
                          [status |-> 200,
                           progress |-> getUserProgress(u, certificationId)])
     /\ UNCHANGED <<quizSessions, userAnswers, userProgress, storeKeepsNaN>>

\* GET /api/topics/:topicId/questions
ListQuestionsFailing(u, topicId, failing) ==
  IF failing = "getQuestionsByTopic"
     THEN /\ last' = Catch([op |-> "questions", user |-> u,
                            topicId |-> topicId],
                           failing, "Failed to get questions")
          /\ UNCHANGED <<quizSessions, userAnswers, userProgress,
                         storeKeepsNaN>>
     ELSE ListQuestions(u, topicId)

\* POST /api/quiz/start
StartQuizFailing(u, topicId, failing) ==
  LET req == [op |-> "start", user |-> u, topicId |-> topicId]
      thrown ==
        \/ failing = "getActiveQuizSession"
        \/ failing = "createQuizSession"
             /\ getActiveQuizSession(u, topicId) = {}
  IN IF thrown
        THEN /\ last' = Catch(req, failing, "Failed to start quiz")
             /\ UNCHANGED <<quizSessions, userAnswers, userProgress,
                            storeKeepsNaN>>
     ELSE StartQuiz(u, topicId)

\* POST /api/quiz/answer
SubmitAnswerFailing(u, questionId, sessionId, selectedAnswer, timeSpentIn, failing) ==
  LET req == [op |-> "answer", user |-> u, questionId |-> questionId,
              sessionId |-> sessionId, selectedAnswer |-> selectedAnswer]
      question == getQuestion(questionId)
      qn == CHOOSE x \in question : TRUE
      answer == [userId |-> u, questionId |-> questionId,
                 sessionId |-> sessionId,
                 selectedAnswer |-> selectedAnswer,
                 isCorrect |-> IsCorrect(selectedAnswer, qn),
                 timeSpent |-> IF timeSpentIn = Absent THEN 0
                               ELSE timeSpentIn]
      saved == question # {} /\ AnswerInsertAllowed(answer)
  IN IF failing = "getQuestion"
          \/ (failing = "saveUserAnswer" /\ question # {})
        THEN /\ last' = Catch(req, failing, "Failed to submit answer")
             /\ UNCHANGED <<quizSessions, userAnswers, userProgress,
                            storeKeepsNaN>>
     ELSE IF failing \in {"getUserAnswers", "updateQuizSession"} /\ saved
        THEN /\ userAnswers' =
                  Append(userAnswers,
                         answer @@ [id |-> Len(userAnswers) + 1,
                                    answeredAt |-> Stamp])
             /\ last' = Catch(req, failing, "Failed to submit answer")
             /\ UNCHANGED <<quizSessions, userProgress, storeKeepsNaN>>
     ELSE SubmitAnswer(u, questionId, sessionId, selectedAnswer,
                       timeSpentIn)

\* POST /api/quiz/:sessionId/complete
CompleteQuizFailing(u, sessionId, failing) ==
  LET req == [op |-> "complete", user |-> u, sessionId |-> sessionId]
      answers == getUserAnswers(sessionId)
      score == Score(Len(SelectSeq(answers, LAMBDA a : a.isCorrect)),
                     Len(answers))
      completed == /\ ~(score = NaN /\ ~storeKeepsNaN)
                   /\ sessionId \in 1..Len(quizSessions)
  IN IF failing \in {"getUserAnswers", "completeQuizSession"}
        THEN /\ last' = Catch(req, failing, "Failed to complete quiz")
             /\ UNCHANGED <<quizSessions, userAnswers, userProgress,
                            storeKeepsNaN>>
     ELSE IF failing = "upsertUserProgress" /\ completed
        THEN /\ quizSessions' = completeQuizSession(sessionId, score)
             /\ last' = Catch(req, failing, "Failed to complete quiz")
             /\ UNCHANGED <<userAnswers, userProgress, storeKeepsNaN>>
     ELSE CompleteQuiz(u, sessionId)

\* ------------------------------------------------------------ middleware
\* A value of a JSON body: the number num / den (in lowest terms) or a
\* field that was not sent.
Num(n, d) == [t |-> "number", num |-> n, den |-> d]
Missing == [t |-> "missing", num |-> 0, den |-> 1]

\* ids that are not UUID-shaped
MalformedKey == "not-a-uuid"
MalformedId == 0

\* The Authorization header: no bearer token, a token jwt.verify throws on
\* (not a JWT, wrong signature, expired), or a token signed for userId.
NoBearer == [kind |-> "none", userId |-> Anon]
BadTokens == {[kind |-> k, userId |-> Anon] : k \in {"garbage", "expired"}}
Signed(u) == [kind |-> "signed", userId |-> u]

\* A request as sent: the route and its method, the headers (token, csrf
\* for x-csrf-token), whether the store throws on the user lookup made for
\* it, and the body (csrfBody for _csrf) and params.
NoRequest ==
  [op |-> "none", method |-> "", token |-> NoBearer, lookupFails |-> FALSE,
   csrf |-> NoToken, csrfBody |-> NoToken,
   topicId |-> "", questionId |-> "", sessionId |-> 0,
   selectedAnswer |-> Missing, timeSpent |-> Missing, email |-> ""]

Request(fields) == fields @@ NoRequest

\* a response sent by a middleware; the chain stops there
Reject(status, code, message) ==
  [next |-> FALSE, status |-> status, code |-> code, message |-> message]
Pass == [next |-> TRUE, status |-> 0, code |-> "", message |-> ""]

getUser(id) == {u \in users : u.id = id}
getUserByEmail(email) == {u \in users : u.email = email}

\* a faulty gate: a signed token passes without the user lookup
authenticateTokenNoLookup(req) ==
  IF req.token.kind = "none"
     THEN Reject(401, "TOKEN_REQUIRED", "Access token required")
  ELSE IF ~jwtSecret
     THEN Reject(500, "CONFIG_ERROR", "Server configuration error")
  ELSE IF req.token.kind # "signed"
     THEN Reject(403, "TOKEN_INVALID", "Invalid or expired token")
  ELSE Pass

authenticateToken(req) ==
  IF req.token.kind = "none"
     THEN Reject(401, "TOKEN_REQUIRED", "Access token required")
  ELSE IF ~jwtSecret
     THEN Reject(500, "CONFIG_ERROR", "Server configuration error")
  ELSE IF req.token.kind # "signed" \/ req.lookupFails
     THEN Reject(403, "TOKEN_INVALID", "Invalid or expired token")
  ELSE IF getUser(req.token.userId) = {}
     THEN Reject(401, "INVALID_TOKEN", "Invalid token - user not found")
  ELSE Pass

\* z.number().int().min(0)
NonNegativeInt(v) == v.t = "number" /\ v.den = 1 /\ v.num >= 0

\* a faulty schema: selectedAnswer is any number
submitAnswerSchemaAnyNumber(req) ==
  /\ req.questionId # MalformedKey
  /\ req.sessionId # MalformedId
  /\ req.selectedAnswer.t = "number"
  /\ req.timeSpent.t = "missing" \/ NonNegativeInt(req.timeSpent)

submitAnswerSchema(req) ==
  /\ req.questionId # MalformedKey
  /\ req.sessionId # MalformedId
  /\ NonNegativeInt(req.selectedAnswer)
  /\ req.timeSpent.t = "missing" \/ NonNegativeInt(req.timeSpent)

startQuizSchema(req) == req.topicId # ""

sessionIdParams(req) == req.sessionId # MalformedId

\* z.string().email()
MalformedEmail == "not-an-email"
emailSchema(req) == req.email # MalformedEmail

validateBody(ok) ==
  IF ok THEN Pass ELSE Reject(400, "VALIDATION_ERROR", "Validation failed")

validateParams(ok) ==
  IF ok THEN Pass
  ELSE Reject(400, "VALIDATION_ERROR", "Parameter validation failed")

\* a faulty check: any token is accepted once the session holds one
csrfProtectionAnyToken(req) ==
  LET token == IF req.csrf # NoToken THEN req.csrf ELSE req.csrfBody
  IN IF /\ req.method \in {"POST", "PUT", "DELETE", "PATCH"}
        /\ (token = NoToken \/ csrfToken = NoToken)
        THEN Reject(403, "CSRF_INVALID", "Invalid CSRF token")
        ELSE Pass

\* token = req.headers['x-csrf-token'] || req.body._csrf
csrfProtection(req) ==
  LET token == IF req.csrf # NoToken THEN req.csrf ELSE req.csrfBody
  IN IF /\ req.method \in {"POST", "PUT", "DELETE", "PATCH"}
        /\ (token = NoToken \/ csrfToken = NoToken \/ token # csrfToken)
        THEN Reject(403, "CSRF_INVALID", "Invalid CSRF token")
        ELSE Pass

\* The middlewares of a route run in order; the first that does not call
\* next() has sent the response.
RECURSIVE Chain(_)
Chain(outcomes) ==
  IF outcomes = <<>> THEN Pass
  ELSE IF ~Head(outcomes).next THEN Head(outcomes)
  ELSE Chain(Tail(outcomes))

\* the request is answered by its chain; no handler runs
Rejected(req, outcome) ==
  /\ last' = Respond([op |-> req.op, user |-> req.token.userId,
                      status |-> outcome.status, code |-> outcome.code,
                      message |-> outcome.message])
  /\ UNCHANGED <<quizSessions, userAnswers, userProgress, storeKeepsNaN>>

\* POST /api/quiz/start behind its chain
StartQuizRoute(req) ==
  LET outcome == Chain(<<authenticateToken(req),
                         validateBody(startQuizSchema(req)),
                         csrfProtection(req)>>)
  IN IF outcome.next THEN StartQuiz(req.token.userId, req.topicId)
     ELSE Rejected(req, outcome)

\* POST /api/quiz/answer behind its chain
SubmitAnswerRoute(req) ==
  LET outcome == Chain(<<authenticateToken(req),
                         validateBody(submitAnswerSchema(req)),
                         csrfProtection(req)>>)
  IN IF outcome.next
        THEN SubmitAnswer(req.token.userId, req.questionId, req.sessionId,
                          req.selectedAnswer.num,
                          IF req.timeSpent.t = "missing" THEN Absent
                          ELSE req.timeSpent.num)
     ELSE Rejected(req, outcome)

\* POST /api/quiz/:sessionId/complete behind its chain
CompleteQuizRoute(req) ==
  LET outcome == Chain(<<authenticateToken(req),
                         validateParams(sessionIdParams(req)),
                         csrfProtection(req)>>)
  IN IF outcome.next THEN CompleteQuiz(req.token.userId, req.sessionId)
     ELSE Rejected(req, outcome)

\* GET /api/progress/:certificationId behind its chain (a route parameter
\* is always a string)
GetProgressRoute(req) ==
  LET outcome == Chain(<<validateParams(TRUE), authenticateToken(req)>>)
  IN IF outcome.next
        THEN GetProgress(req.token.userId, HardCodedCertification, "none")
     ELSE Rejected(req, outcome)

\* GET /api/user/profile
GetProfileRoute(req) ==
  LET outcome == authenticateToken(req)
      user == getUser(req.token.userId)
  IN IF outcome.next
        THEN /\ last' =
                  IF user = {}
                     THEN Respond([op |-> "profile",
                                   user |-> req.token.userId,
                                   status |-> 404,
                                   code |-> "USER_NOT_FOUND",
                                   message |-> "User not found"])
                     ELSE Respond([op |-> "profile",
                                   user |-> req.token.userId,
                                   status |-> 200])
             /\ UNCHANGED <<quizSessions, userAnswers, userProgress,
                            storeKeepsNaN>>
     ELSE Rejected(req, outcome)

\* csrfProtection in front of a handler that reads and writes no table, on
\* a route of any method
GuardedRoute(req) ==
  LET outcome == csrfProtection(req)
  IN IF outcome.next
        THEN /\ last' = Respond([op |-> "guarded", status |-> 200])
             /\ UNCHANGED <<quizSessions, userAnswers, userProgress,
                            storeKeepsNaN>>
     ELSE Rejected(req, outcome)

\* AuthService.resetPassword: the store's error is caught in the service
resetPassword(email, lookupFails) ==
  IF lookupFails
     THEN [success |-> FALSE, error |-> "Password reset failed"]
  ELSE IF getUserByEmail(email) = {}
     THEN [success |-> FALSE, error |-> "User not found"]
  ELSE [success |-> TRUE, error |-> ""]

\* a faulty handler: the service's result decides the response
ResetPasswordResponseRevealing(result) ==
  IF result.success
     THEN Respond([op |-> "reset", status |-> 200,
                   message |->
                     "Password reset email sent if account exists"])
     ELSE Respond([op |-> "reset", status |-> 404,
                   code |-> "USER_NOT_FOUND", message |-> result.error])

\* the handler's response: the result of the service is not looked at
ResetPasswordResponse(result) ==
  Respond([op |-> "reset", status |-> 200,
           message |-> "Password reset email sent if account exists"])

\* POST /api/auth/reset-password behind its chain
ResetPasswordRoute(req) ==
  LET outcome == validateBody(emailSchema(req))
  IN IF outcome.next
        THEN /\ last' = ResetPasswordResponse(
                          resetPassword(req.email, req.lookupFails))
             /\ UNCHANGED <<quizSessions, userAnswers, userProgress,
                            storeKeepsNaN>>
     ELSE Rejected(req, outcome)

\* ------------------------------------------- handlers, one await at a time
\* The handlers are async functions: between two awaited store calls of one
\* request the store calls of another may run. Request slot r holds the
\* locals of its handler in inflight[r]; pc names the store call it makes
\* next. A step is one store call together with the code up to the next
\* await. The lookup of a question reads reference data only and is taken
\* together with the call after it.
Park(r, locals) == inflight' = [inflight EXCEPT ![r] = locals @@ Idle]

Finish(r, response) ==
  /\ inflight' = [inflight EXCEPT ![r] = Idle]
  /\ last' = response

\* POST /api/quiz/start: storage.getActiveQuizSession
StartLookup(r, u, topicId) ==
  LET existingSession == getActiveQuizSession(u, topicId)
      req == [op |-> "start", user |-> u, topicId |-> topicId]
  IN /\ inflight[r].pc = "idle"
     /\ IF existingSession # {}
           THEN Finish(r, Respond(req @@ [status |-> 200,
                                          session |-> existingSession]))
           ELSE /\ Park(r, [pc |-> "createQuizSession", user |-> u,
                            topicId |-> topicId])
                /\ UNCHANGED last
     /\ UNCHANGED <<quizSessions, userAnswers, userProgress, storeKeepsNaN>>

\* POST /api/quiz/start: storage.createQuizSession
StartCreate(r) ==
  LET my == inflight[r]
      insert == [userId |-> my.user, topicId |-> my.topicId,
                 currentQuestionIndex |-> 0, answers |-> <<>>]
      created == NewSessionRow(insert, Len(quizSessions) + 1)
      req == [op |-> "start", user |-> my.user, topicId |-> my.topicId]
  IN /\ my.pc = "createQuizSession"
     /\ IF ~SessionInsertAllowed(insert)
           THEN /\ Finish(r, Respond(req @@
                               [status |-> 500, code |-> "INTERNAL_ERROR",
                                message |-> "Failed to start quiz"]))
                /\ UNCHANGED quizSessions
           ELSE /\ quizSessions' = Append(quizSessions, created)
                /\ Finish(r, Respond(req @@ [status |-> 201,
                                             session |-> {created}]))
     /\ UNCHANGED <<userAnswers, userProgress, storeKeepsNaN>>

\* POST /api/quiz/answer: storage.getQuestion, storage.saveUserAnswer
AnswerSave(r, u, questionId, sessionId, selectedAnswer, timeSpentIn) ==
  LET req == [op |-> "answer", user |-> u, questionId |-> questionId,
              sessionId |-> sessionId, selectedAnswer |-> selectedAnswer]
      question == getQuestion(questionId)
      qn == CHOOSE x \in question : TRUE
      answer == [userId |-> u, questionId |-> questionId,
                 sessionId |-> sessionId,
                 selectedAnswer |-> selectedAnswer,
                 isCorrect |-> IsCorrect(selectedAnswer, qn),
                 timeSpent |-> IF timeSpentIn = Absent THEN 0
                               ELSE timeSpentIn]
  IN /\ inflight[r].pc = "idle"
     /\ IF question = {}
           THEN /\ Finish(r, Respond(req @@
                               [status |-> 404,
                                code |-> "QUESTION_NOT_FOUND",
                                message |-> "Question not found"]))
                /\ UNCHANGED userAnswers
        ELSE IF ~AnswerInsertAllowed(answer)
           THEN /\ Finish(r, Respond(req @@
                               [status |-> 500, code |-> "INTERNAL_ERROR",
                                message |-> "Failed to submit answer"]))
                /\ UNCHANGED userAnswers
        ELSE /\ userAnswers' =
                  Append(userAnswers,
                         answer @@ [id |-> Len(userAnswers) + 1,
                                    answeredAt |-> Stamp])
             /\ Park(r, [pc |-> "getUserAnswers", user |-> u,
                         questionId |-> questionId,
                         sessionId |-> sessionId,
                         selectedAnswer |-> selectedAnswer,
                         isCorrect |-> answer.isCorrect])
             /\ UNCHANGED last
     /\ UNCHANGED <<quizSessions, userProgress, storeKeepsNaN>>

\* POST /api/quiz/answer: (await storage.getUserAnswers(sessionId)).length
AnswerCount(r) ==
  LET my == inflight[r]
  IN /\ my.pc = "getUserAnswers"
     /\ inflight' =
          [inflight EXCEPT ![r] =
             [my EXCEPT !.pc = "updateQuizSession",
                        !.count = Len(getUserAnswers(my.sessionId))]]
     /\ UNCHANGED <<quizSessions, userAnswers, userProgress,
                    storeKeepsNaN, last>>

\* POST /api/quiz/answer: storage.updateQuizSession
AnswerUpdate(r) ==
  LET my == inflight[r]
      qn == questions[my.questionId]
  IN /\ my.pc = "updateQuizSession"
     /\ quizSessions' =
          [quizSessions EXCEPT
             ![my.sessionId].currentQuestionIndex = my.count]
     /\ Finish(r, Respond([op |-> "answer", user |-> my.user,
                           questionId |-> my.questionId,
                           sessionId |-> my.sessionId,
                           selectedAnswer |-> my.selectedAnswer,
                           status |-> 200,
                           isCorrect |-> my.isCorrect,
                           correctAnswer |-> qn.correctAnswer,
                           explanation |-> qn.explanation,
                           session |-> {quizSessions'[my.sessionId]}]))
     /\ UNCHANGED <<userAnswers, userProgress, storeKeepsNaN>>

\* POST /api/quiz/:sessionId/complete: storage.getUserAnswers
CompleteRead(r, u, sessionId) ==
  LET answers == getUserAnswers(sessionId)
  IN /\ inflight[r].pc = "idle"
     /\ Park(r, [pc |-> "completeQuizSession", user |-> u,
                 sessionId |-> sessionId, answers |-> answers,
                 score |-> Score(Len(SelectSeq(answers,
                                               LAMBDA a : a.isCorrect)),
                                 Len(answers))])
     /\ UNCHANGED <<quizSessions, userAnswers, userProgress,
                    storeKeepsNaN, last>>

\* POST /api/quiz/:sessionId/complete: storage.completeQuizSession
CompleteSession(r) ==
  LET my == inflight[r]
      req == [op |-> "complete", user |-> my.user,
              sessionId |-> my.sessionId]
  IN /\ my.pc = "completeQuizSession"
     /\ IF my.score = NaN /\ ~storeKeepsNaN
           THEN /\ Finish(r, Respond(req @@
                               [status |-> 500, code |-> "INTERNAL_ERROR",
                                message |-> "Failed to complete quiz"]))
                /\ UNCHANGED quizSessions
        ELSE IF my.sessionId \notin 1..Len(quizSessions)
           THEN /\ Finish(r, Respond(req @@
                               [status |-> 404,
                                code |-> "SESSION_NOT_FOUND",
                                message |-> "Quiz session not found"]))
                /\ UNCHANGED quizSessions
        ELSE /\ quizSessions' = completeQuizSession(my.sessionId, my.score)
             /\ inflight' =
                  [inflight EXCEPT ![r] =
                     [my EXCEPT !.pc = "getTopicProgress",
                                !.topicId =
                                   quizSessions[my.sessionId].topicId]]
             /\ UNCHANGED last
     /\ UNCHANGED <<userAnswers, userProgress, storeKeepsNaN>>

\* storage.upsertUserProgress: this.getTopicProgress
CompleteLookup(r) ==
  LET my == inflight[r]
  IN /\ my.pc = "getTopicProgress"
     /\ inflight' =
          [inflight EXCEPT ![r] =
             [my EXCEPT !.pc = "upsertUserProgress",
                        !.found = getTopicProgress(my.user, my.topicId)]]
     /\ UNCHANGED <<quizSessions, userAnswers, userProgress,
                    storeKeepsNaN, last>>

\* storage.upsertUserProgress: the update of the row found, or the insert
CompleteWrite(r) ==
  LET my == inflight[r]
      correctCount == Len(SelectSeq(my.answers, LAMBDA a : a.isCorrect))
      totalQuestions == Len(my.answers)
      progress == [userId |-> my.user,
                   certificationId |-> HardCodedCertification,
                   topicId |-> my.topicId,
                   totalQuestions |-> totalQuestions,
                   completedQuestions |-> totalQuestions,
                   correctAnswers |-> correctCount,
                   bestScore |-> my.score,
                   lastQuestionIndex |-> totalQuestions,
                   isCompleted |-> TRUE,
                   timeSpent |-> SumTime(my.answers)]
  IN /\ my.pc = "upsertUserProgress"
     /\ userProgress' =
          IF my.found # {}
             THEN LET e == CHOOSE x \in my.found : TRUE
                  IN [userProgress EXCEPT ![e.id] = progress @@ [id |-> e.id]]
             ELSE Append(userProgress,
                         progress @@ [id |-> Len(userProgress) + 1])
     /\ Finish(r, Respond([op |-> "complete", user |-> my.user,
                           sessionId |-> my.sessionId,
                           status |-> 200,
                           session |-> {[quizSessions[my.sessionId] EXCEPT
                                           !.score = my.score]},
                           score |-> my.score,
                           correctCount |-> correctCount,
                           totalQuestions |-> totalQuestions,
                           answers |-> my.answers]))
     /\ UNCHANGED <<quizSessions, userAnswers, storeKeepsNaN>>

\* AuthProvider freshly mounted in a browser that stores no token.
\* user: useState<User | null>, a set of 0 or 1 rows. token: the
\* auth_token item of localStorage (NoBearer: none). isLoading: the
\* useState cell. mounted: the effect that calls checkAuthStatus has run.
\* pending: the calls awaiting their response.
initialAuth ==
  [user |-> {}, token |-> NoBearer, isLoading |-> TRUE, mounted |-> FALSE,
   pending |-> {}]

\* the client operations that may overlap, and one that is not under way:
\* pc is "idle", "fetched" (its csrf token is held, its request not yet
\* sent) or "done" (status and code are its response's)
Ops == 1..MaxOverlap
IdleOp == [pc |-> "idle", csrf |-> NoToken, status |-> 0, code |-> ""]
initialOps == [o \in Ops |-> IdleOp]

\* ------------------------------------------------------- specifications
\* Spec: the session lifecycle. One user, two topics and an unknown topic
\* id; answers to q1, right (2) or wrong (0); any session id, one past the
\* last row included.
\* The environment in which the chain lets a request of u1 or u2 through:
\* both are registered, the secret is set, a CSRF token has been issued.
EnvReady ==
  /\ users = {UserRow(u) : u \in Users}
  /\ jwtSecret = TRUE
  /\ csrfToken = IssuedToken
  /\ inflight = [r \in Requests |-> Idle]
  /\ request = NoRequest
  /\ client = initialClient
  /\ auth = initialAuth
  /\ ops = initialOps

Init ==
  /\ quizSessions = <<>>
  /\ userAnswers = <<>>
  /\ userProgress = <<>>
  /\ storeKeepsNaN \in BOOLEAN
  /\ last = NoResponse
  /\ EnvReady

StartQuizReq ==
  \E t \in TopicIds :
    /\ Len(quizSessions) < MaxSessions \/ getActiveQuizSession("u1", t) # {}
    /\ StartQuiz("u1", t)
    /\ UNCHANGED envVars

SubmitAnswerReq ==
  \E s \in SessionIds, k \in {0, 2} :
    /\ Len(userAnswers) < MaxAnswers
    /\ SubmitAnswer("u1", "q1", s, k, Absent)
    /\ UNCHANGED envVars

CompleteQuizReq ==
  \E s \in SessionIds : CompleteQuiz("u1", s) /\ UNCHANGED envVars

Next ==
  \/ StartQuizReq
  \/ SubmitAnswerReq
  \/ CompleteQuizReq

Spec == Init /\ [][Next]_vars

\* The state after u1 has started a quiz on topic iam (StartQuiz("u1",
\* "iam") from Init): the initial state of SpecWide and SpecDeep.
StartedSession ==
  NewSessionRow([userId |-> "u1", topicId |-> "iam",
                 currentQuestionIndex |-> 0, answers |-> <<>>], 1)

InitStarted ==
  /\ quizSessions = <<StartedSession>>
  /\ userAnswers = <<>>
  /\ userProgress = <<>>
  /\ storeKeepsNaN \in BOOLEAN
  /\ last = Respond([op |-> "start", user |-> "u1", topicId |-> "iam",
                     status |-> 201, session |-> {StartedSession}])
  /\ EnvReady

\* SpecWide: one session, every question id and selected index, with and
\* without timeSpent; few answers.
WideListQuestions ==
  \E u \in {Anon, "u1"}, t \in TopicIds :
    ListQuestions(u, t) /\ UNCHANGED envVars

WideSubmitAnswer ==
  \E q \in QuestionIds, k \in 0..3, ts \in {Absent, 3} :
    /\ Len(userAnswers) < MaxWideAnswers
    /\ SubmitAnswer("u1", q, 1, k, ts)
    /\ UNCHANGED envVars

WideCompleteQuiz == CompleteQuiz("u1", 1) /\ UNCHANGED envVars

NextWide ==
  \/ WideListQuestions
  \/ WideSubmitAnswer
  \/ WideCompleteQuiz

SpecWide == InitStarted /\ [][NextWide]_vars

\* SpecDeep: one session and long answer logs. An answer is q1 answered 2
\* (right, no timeSpent sent) or q2 answered 0 (wrong, 3 seconds).
DeepAnswers == {<<"q1", 2, Absent>>, <<"q2", 0, 3>>}

DeepSubmitAnswer ==
  \E a \in DeepAnswers :
    /\ Len(userAnswers) < MaxDeepAnswers
    /\ SubmitAnswer("u1", a[1], 1, a[2], a[3])
    /\ UNCHANGED envVars

DeepCompleteQuiz == CompleteQuiz("u1", 1) /\ UNCHANGED envVars

NextDeep ==
  \/ DeepSubmitAnswer
  \/ DeepCompleteQuiz

SpecDeep == InitStarted /\ [][NextDeep]_vars

\* SpecFail: the session lifecycle of u1 on topic iam over a store whose
\* calls may throw, one handler at a time.
FailStartQuiz ==
  \E f \in {"none", "getActiveQuizSession", "createQuizSession"} :
    /\ Len(quizSessions) < MaxFailSessions
          \/ getActiveQuizSession("u1", "iam") # {}
    /\ StartQuizFailing("u1", "iam", f)
    /\ UNCHANGED envVars

FailSubmitAnswer ==
  \E q \in {"q1", "qx"}, s \in 1..MaxFailSessions,
     f \in {"none", "getQuestion", "saveUserAnswer", "getUserAnswers",
            "updateQuizSession"} :
    /\ Len(userAnswers) < MaxFailAnswers
    /\ SubmitAnswerFailing("u1", q, s, 2, Absent, f)
    /\ UNCHANGED envVars

FailCompleteQuiz ==
  \E s \in 1..MaxFailSessions,
     f \in {"none", "getUserAnswers", "completeQuizSession",
            "upsertUserProgress"} :
    CompleteQuizFailing("u1", s, f) /\ UNCHANGED envVars

FailGetProgress ==
  \E c \in {HardCodedCertification, "aws-solutions-architect"},
     f \in {"none", "getUserProgress"} :
    GetProgress("u1", c, f) /\ UNCHANGED envVars

FailListQuestions ==
  \E f \in {"none", "getQuestionsByTopic"} :
    ListQuestionsFailing("u1", "iam", f) /\ UNCHANGED envVars

NextFail ==
  \/ FailStartQuiz
  \/ FailSubmitAnswer
  \/ FailCompleteQuiz
  \/ FailGetProgress
  \/ FailListQuestions

SpecFail == Init /\ [][NextFail]_vars

\* SpecGate: the routes behind their middleware chains, one request at a
\* time, each admitted by the rate limiters. u1 is registered and u2 is
\* not; JWT_SECRET is set or not; a request carries no token, a token that
\* does not verify or a token signed for u1 or u2, and the csrf token
\* issued first or none; the session holds no csrf token or either of two.
InitGate ==
  /\ quizSessions = <<>>
  /\ userAnswers = <<>>
  /\ userProgress = <<>>
  /\ storeKeepsNaN \in BOOLEAN
  /\ last = NoResponse
  /\ users = {UserRow("u1")}
  /\ jwtSecret \in BOOLEAN
  /\ csrfToken = NoToken
  /\ inflight = [r \in Requests |-> Idle]
  /\ request = NoRequest
  /\ client = initialClient
  /\ auth = initialAuth
  /\ ops = initialOps

GateCredentials ==
  {[token |-> t, lookupFails |-> FALSE] :
     t \in {NoBearer} \cup BadTokens \cup {Signed(u) : u \in Users}}
  \cup {[token |-> Signed(u), lookupFails |-> TRUE] : u \in Users}

GateHeaders ==
  {c @@ [csrf |-> x] : c \in GateCredentials, x \in {NoToken, IssuedToken}}

\* the headers of u1's own client: a token signed for u1, looked up
GateOwnHeaders ==
  {h \in GateHeaders : h.token = Signed("u1") /\ ~h.lookupFails}

\* Requests to a route: every kind of headers with the first body or
\* params, and u1's own headers with each body or params.
GateRequests(first, bodies) ==
  {h @@ first : h \in GateHeaders}
  \cup {h @@ b : h \in GateOwnHeaders, b \in bodies}

\* bodies of POST /api/quiz/answer: one that satisfies the schema and one
\* for each way of violating it
GateValidAnswer ==
  [questionId |-> "q1", sessionId |-> 1,
   selectedAnswer |-> Num(2, 1), timeSpent |-> Num(3, 1)]

GateAnswerBodies ==
  LET valid == GateValidAnswer
  IN {valid,
      [valid EXCEPT !.timeSpent = Missing],
      [valid EXCEPT !.questionId = MalformedKey],
      [valid EXCEPT !.sessionId = MalformedId],
      [valid EXCEPT !.selectedAnswer = Num(0 - 1, 1)],
      [valid EXCEPT !.selectedAnswer = Num(3, 2)],
      [valid EXCEPT !.selectedAnswer = Missing],
      [valid EXCEPT !.timeSpent = Num(0 - 3, 1)]}

\* GET /api/csrf-token: a fresh random token is stored in the session
GateCsrfToken ==
  \E t \in {IssuedToken, IssuedToken + 1} :
    /\ csrfToken' = t
    /\ request' = Request([op |-> "csrf-token", method |-> "GET"])
    /\ last' = Respond([op |-> "csrf-token", status |-> 200])
    /\ UNCHANGED <<quizSessions, userAnswers, userProgress, storeKeepsNaN,
                   users, jwtSecret, inflight, clientVars>>

GateStartQuiz ==
  \E q \in GateRequests([topicId |-> "iam"],
                         {[topicId |-> t] : t \in {"iam", ""}}) :
    LET req == Request(q @@ [op |-> "start", method |-> "POST"])
    IN /\ Len(quizSessions) < MaxGateSessions
             \/ getActiveQuizSession("u1", "iam") # {}
       /\ request' = req
       /\ StartQuizRoute(req)
       /\ UNCHANGED <<users, jwtSecret, csrfToken, inflight, clientVars>>

GateSubmitAnswer ==
  \E q \in GateRequests(GateValidAnswer, GateAnswerBodies) :
    LET req == Request(q @@ [op |-> "answer", method |-> "POST"])
    IN /\ Len(userAnswers) < MaxGateAnswers
       /\ request' = req
       /\ SubmitAnswerRoute(req)
       /\ UNCHANGED <<users, jwtSecret, csrfToken, inflight, clientVars>>

GateCompleteQuiz ==
  \E q \in GateRequests([sessionId |-> 1],
                         {[sessionId |-> x] : x \in {1, MalformedId}}) :
    LET req == Request(q @@ [op |-> "complete", method |-> "POST"])
    IN /\ request' = req
       /\ CompleteQuizRoute(req)
       /\ UNCHANGED <<users, jwtSecret, csrfToken, inflight, clientVars>>

GateGetProgress ==
  \E c \in GateCredentials :
    LET req == Request(c @@ [op |-> "progress", method |-> "GET"])
    IN /\ request' = req
       /\ GetProgressRoute(req)
       /\ UNCHANGED <<users, jwtSecret, csrfToken, inflight, clientVars>>

GateGetProfile ==
  \E c \in GateCredentials :
    LET req == Request(c @@ [op |-> "profile", method |-> "GET"])
    IN /\ request' = req
       /\ GetProfileRoute(req)
       /\ UNCHANGED <<users, jwtSecret, csrfToken, inflight, clientVars>>

GateResetPassword ==
  \E e \in {UserRow(u).email : u \in Users} \cup {MalformedEmail},
     f \in BOOLEAN :
    LET req == Request([op |-> "reset", method |-> "POST", email |-> e,
                        lookupFails |-> f])
    IN /\ request' = req
       /\ ResetPasswordRoute(req)
       /\ UNCHANGED <<users, jwtSecret, csrfToken, inflight, clientVars>>

\* a request of any method to a route guarded by csrfProtection alone, the
\* token in the header, in the body, in both or in neither
GateGuarded ==
  \E m \in {"GET", "HEAD", "POST", "PUT", "DELETE", "PATCH"},
     x \in {NoToken, IssuedToken}, y \in {NoToken, IssuedToken + 1} :
    LET req == Request([op |-> "guarded", method |-> m,
                        csrf |-> x, csrfBody |-> y])
    IN /\ request' = req
       /\ GuardedRoute(req)
       /\ UNCHANGED <<users, jwtSecret, csrfToken, inflight, clientVars>>

NextGate ==
  \/ GateGuarded
  \/ GateCsrfToken
  \/ GateStartQuiz
  \/ GateSubmitAnswer
  \/ GateCompleteQuiz
  \/ GateGetProgress
  \/ GateGetProfile
  \/ GateResetPassword

SpecGate == InitGate /\ [][NextGate]_vars

\* SpecRace: two requests of u1 on topic iam in flight at once, their
\* store calls interleaved in any order. Answers (q1 answered 2) and
\* completions are for the session with id 1, whether it exists or not.
raceFrame == <<users, jwtSecret, csrfToken, request, clientVars>>

Creating == {r \in Requests : inflight[r].pc = "createQuizSession"}

RaceStartLookup ==
  \E r \in Requests :
    /\ Len(quizSessions) + Cardinality(Creating) < MaxRaceSessions
          \/ getActiveQuizSession("u1", "iam") # {}
    /\ StartLookup(r, "u1", "iam")
    /\ UNCHANGED raceFrame

RaceStartCreate == \E r \in Requests : StartCreate(r) /\ UNCHANGED raceFrame

RaceAnswerSave ==
  \E r \in Requests :
    /\ Len(userAnswers) < MaxRaceAnswers
    /\ AnswerSave(r, "u1", "q1", 1, 2, Absent)
    /\ UNCHANGED raceFrame

RaceAnswerCount == \E r \in Requests : AnswerCount(r) /\ UNCHANGED raceFrame

RaceAnswerUpdate ==
  \E r \in Requests : AnswerUpdate(r) /\ UNCHANGED raceFrame

RaceCompleteRead ==
  \E r \in Requests : CompleteRead(r, "u1", 1) /\ UNCHANGED raceFrame

RaceCompleteSession ==
  \E r \in Requests : CompleteSession(r) /\ UNCHANGED raceFrame

RaceCompleteLookup ==
  \E r \in Requests : CompleteLookup(r) /\ UNCHANGED raceFrame

RaceCompleteWrite ==
  \E r \in Requests : CompleteWrite(r) /\ UNCHANGED raceFrame

NextRace ==
  \/ RaceStartLookup
  \/ RaceStartCreate
  \/ RaceAnswerSave
  \/ RaceAnswerCount
  \/ RaceAnswerUpdate
  \/ RaceCompleteRead
  \/ RaceCompleteSession
  \/ RaceCompleteLookup
  \/ RaceCompleteWrite

SpecRace == Init /\ [][NextRace]_vars

\* SpecOwner: the session of u1 on topic iam and two authenticated users,
\* u1 and u2, each naming that session in answers and completions.
OwnerSubmitAnswer ==
  \E u \in Users, k \in {0, 2} :
    /\ Len(userAnswers) < MaxOwnerAnswers
    /\ SubmitAnswer(u, "q1", 1, k, Absent)
    /\ UNCHANGED envVars

OwnerCompleteQuiz ==
  \E u \in Users : CompleteQuiz(u, 1) /\ UNCHANGED envVars

NextOwner ==
  \/ OwnerSubmitAnswer
  \/ OwnerCompleteQuiz

SpecOwner == InitStarted /\ [][NextOwner]_vars

\* SpecClient: the browser of u1, signed in, driving the quiz through
\* QuizProvider and the results page against the handlers. Each client
\* call is taken with the responses it awaits; the requests are admitted
\* by the middleware. The quiz is on topic iam, each answer is 2, to any
\* question of the list fetched; any index from -1 to one past the
\* answer bound is asked of goToQuestion.
ClientUser == "u1"

\* { ...obj, [key]: value }
Assign(obj, key, value) ==
  [x \in DOMAIN obj \cup {key} |-> IF x = key THEN value ELSE obj[x]]

quizReducer(state, action) ==
  CASE action.type = "SET_LOADING" ->
         [state EXCEPT !.isLoading = action.payload]
    [] action.type = "SET_QUESTIONS" ->
         [state EXCEPT !.questions = action.payload]
    [] action.type = "SET_SESSION" ->
         [state EXCEPT !.session = action.payload]
    [] action.type = "SET_CURRENT_QUESTION" ->
         [state EXCEPT !.currentQuestionIndex = action.payload,
                       !.showExplanation = FALSE]
    [] action.type = "SET_ANSWER" ->
         [state EXCEPT !.answers = Assign(state.answers,
                                          action.payload.questionId,
                                          action.payload.answer)]
    [] action.type = "SHOW_EXPLANATION" ->
         [state EXCEPT !.showExplanation = action.payload]
    [] action.type = "SET_TIME_SPENT" ->
         [state EXCEPT !.timeSpent = action.payload]
    [] action.type = "RESET_QUIZ" -> initialState
    [] OTHER -> state

\* Object.entries(answers).forEach(... dispatch SET_ANSWER ...)
RECURSIVE restoreAnswers(_, _)
restoreAnswers(state, answers) ==
  IF DOMAIN answers = {} THEN state
  ELSE LET q == CHOOSE x \in DOMAIN answers : TRUE
           rest == [x \in DOMAIN answers \ {q} |-> answers[x]]
       IN restoreAnswers(
            quizReducer(state, [type |-> "SET_ANSWER",
                                payload |-> [questionId |-> q,
                                             answer |-> answers[q]]]),
            rest)

\* the body of GET /api/topics/:topicId/questions
questionsOf(topicId) ==
  [i \in 1..Len(getQuestionsByTopic(topicId)) |->
     Sanitize(getQuestionsByTopic(topicId)[i])]

\* response.ok
Ok(response) == response.status \in 200..299

\* SET_CURRENT_QUESTION to the session's cursor, then the answers restored
resumedAt(state, session) ==
  restoreAnswers(
    quizReducer(state, [type |-> "SET_CURRENT_QUESTION",
                        payload |-> session.currentQuestionIndex]),
    session.answers)

\* the reducer's state after startQuiz(topicId), given the question list
\* fetched and the response to POST /api/quiz/start
startQuiz(state, fetched, response) ==
  LET loading == quizReducer(state, [type |-> "SET_LOADING",
                                     payload |-> TRUE])
      listed == quizReducer(loading, [type |-> "SET_QUESTIONS",
                                      payload |-> fetched])
      session == CHOOSE x \in response.session : TRUE
      held == quizReducer(listed, [type |-> "SET_SESSION",
                                   payload |-> response.session])
      outcome == IF ~Ok(response) THEN listed
                 ELSE IF session.currentQuestionIndex > 0
                    THEN resumedAt(held, session)
                 ELSE held
  IN quizReducer(outcome, [type |-> "SET_LOADING", payload |-> FALSE])

\* the reducer's state after submitAnswer, given the response
submitAnswer(state, questionId, selectedAnswer, response) ==
  IF ~Ok(response) THEN state
  ELSE LET answered == quizReducer(state,
                         [type |-> "SET_ANSWER",
                          payload |-> [questionId |-> questionId,
                                       answer |-> selectedAnswer]])
           held == quizReducer(answered, [type |-> "SET_SESSION",
                                          payload |-> response.session])
       IN quizReducer(held, [type |-> "SHOW_EXPLANATION",
                             payload |-> TRUE])

goToQuestion(state, index) ==
  IF index >= 0 /\ index < Len(state.questions)
     THEN quizReducer(state, [type |-> "SET_CURRENT_QUESTION",
                              payload |-> index])
     ELSE state

resumeQuiz(state, session) ==
  resumedAt(quizReducer(state, [type |-> "SET_SESSION",
                                payload |-> {session}]),
            session)

resetQuiz(state) == quizReducer(state, [type |-> "RESET_QUIZ"])

\* QuizProvider has rendered: startQuiz .. resumeQuiz are new closures and
\* the context value is a new object, so the effect of a mounted results
\* page, which depends on completeQuiz, is due again.
Rendered(c) == [c EXCEPT !.effectPending = c.mounted]

\* the requests for completion issued for a session id
Issued(c, id) ==
  IF id \in DOMAIN c.completeRequests THEN c.completeRequests[id] ELSE 0

clientFrame == <<users, jwtSecret, csrfToken, inflight, request, auth, ops>>
storeFrame ==
  <<quizSessions, userAnswers, userProgress, storeKeepsNaN, last>>

ClientStartQuiz ==
  \E topicId \in {"iam"} :
    /\ \/ Len(quizSessions) < MaxClientSessions
       \/ getActiveQuizSession(ClientUser, topicId) # {}
    /\ StartQuiz(ClientUser, topicId)
    /\ client' = Rendered([client EXCEPT
                   !.state = startQuiz(client.state, questionsOf(topicId),
                                       last')])
    /\ UNCHANGED clientFrame

ClientSubmitAnswer ==
  \E i \in 1..Len(client.state.questions), k \in {2} :
    \/ /\ client.state.session = {}
       /\ UNCHANGED vars
    \/ \E session \in client.state.session,
          questionId \in {client.state.questions[i].id} :
         /\ Len(userAnswers) < MaxClientAnswers
         /\ SubmitAnswer(ClientUser, questionId, session.id, k, 1)
         /\ client' = Rendered([client EXCEPT
                        !.state = submitAnswer(client.state, questionId, k,
                                               last')])
         /\ UNCHANGED clientFrame

ClientGoToQuestion ==
  \E index \in (0 - 1)..(MaxClientAnswers + 1) :
    /\ client' = IF goToQuestion(client.state, index) = client.state
                    THEN client
                    ELSE Rendered([client EXCEPT
                           !.state = goToQuestion(client.state, index)])
    /\ UNCHANGED <<storeFrame, clientFrame>>

ClientResumeQuiz ==
  \E i \in 1..Len(quizSessions) :
    /\ quizSessions[i].userId = ClientUser
    /\ client' = Rendered([client EXCEPT
                   !.state = resumeQuiz(client.state, quizSessions[i])])
    /\ UNCHANGED <<storeFrame, clientFrame>>

ClientResetQuiz ==
  /\ client' = Rendered([client EXCEPT !.state = resetQuiz(client.state)])
  /\ UNCHANGED <<storeFrame, clientFrame>>

\* QuizProvider renders again without a dispatch of its own (its parent
\* has rendered, or a hook it uses has a new state)
ClientRender ==
  /\ client' = Rendered(client)
  /\ UNCHANGED <<storeFrame, clientFrame>>

\* the user opens the results page / leaves it
ResultsMount ==
  /\ ~client.mounted
  /\ client' = [client EXCEPT !.mounted = TRUE, !.effectPending = TRUE,
                              !.results = {}, !.isLoading = TRUE]
  /\ UNCHANGED <<storeFrame, clientFrame>>

ResultsUnmount ==
  /\ client.mounted
  /\ client' = [client EXCEPT !.mounted = FALSE, !.effectPending = FALSE,
                              !.results = {}, !.isLoading = TRUE]
  /\ UNCHANGED <<storeFrame, clientFrame>>

\* the effect of the results page: fetchResults(), with completeQuiz()
\* and the response it awaits
ResultsEffect ==
  /\ client.mounted
  /\ client.effectPending
  /\ \/ /\ auth.user = {}
        /\ client' = [client EXCEPT !.effectPending = FALSE]
        /\ UNCHANGED storeFrame
     \/ /\ auth.user # {}
        /\ \A session \in client.state.session :
             session.completedAt # Null
        /\ client' = [client EXCEPT !.effectPending = FALSE,
                                    !.isLoading = FALSE]
        /\ UNCHANGED storeFrame
     \/ \E session \in client.state.session :
          /\ auth.user # {}
          /\ session.completedAt = Null
          /\ Issued(client, session.id) < MaxCompleteRequests
          /\ CompleteQuiz(ClientUser, session.id)
          /\ client' =
               [client EXCEPT
                  !.effectPending = FALSE,
                  !.isLoading = FALSE,
                  !.results = IF Ok(last') THEN {last'} ELSE @,
                  !.completeRequests =
                     Assign(@, session.id, Issued(client, session.id) + 1)]
  /\ UNCHANGED clientFrame

InitClient ==
  /\ quizSessions = <<>>
  /\ userAnswers = <<>>
  /\ userProgress = <<>>
  /\ storeKeepsNaN \in BOOLEAN
  /\ last = NoResponse
  /\ users = {UserRow(u) : u \in Users}
  /\ jwtSecret = TRUE
  /\ csrfToken = IssuedToken
  /\ inflight = [r \in Requests |-> Idle]
  /\ request = NoRequest
  /\ client = initialClient
  /\ auth = [initialAuth EXCEPT !.user = {UserRow(ClientUser)},
                                !.token = Signed(ClientUser),
                                !.isLoading = FALSE,
                                !.mounted = TRUE]
  /\ ops = initialOps

NextClient ==
  \/ ClientStartQuiz
  \/ ClientSubmitAnswer
  \/ ClientGoToQuestion
  \/ ClientResumeQuiz
  \/ ClientResetQuiz
  \/ ClientRender
  \/ ResultsMount
  \/ ResultsUnmount
  \/ ResultsEffect

SpecClient == InitClient /\ [][NextClient]_vars

\* SpecCsrf: one browser session of u1, whose quiz session 1 on topic iam
\* is open, running state-changing operations (submitAnswer) that may
\* overlap. Each operation awaits addCSRFToken(), which fetches a token
\* from GET /api/csrf-token, and then posts with that token in
\* X-CSRF-Token; between the two awaits another operation may run. The
\* tokens, 32 random bytes each, are numbered in the order of issue.
OpFrame == <<users, jwtSecret, inflight, client, auth>>

\* generateCSRFToken: a token never issued before replaces the session's
generateCSRFToken == csrfToken + 1

\* addCSRFToken: getCSRFToken() awaited, the token kept for the request
OpAddCSRFToken ==
  \E o \in Ops :
    /\ ops[o].pc # "fetched"
    /\ csrfToken < MaxTokens
    /\ csrfToken' = generateCSRFToken
    /\ ops' = [ops EXCEPT ![o] = [IdleOp EXCEPT !.pc = "fetched",
                                                !.csrf = generateCSRFToken]]
    /\ request' = Request([op |-> "csrf-token", method |-> "GET"])
    /\ last' = Respond([op |-> "csrf-token", status |-> 200])
    /\ UNCHANGED <<quizSessions, userAnswers, userProgress, storeKeepsNaN,
                   OpFrame>>

\* fetch('/api/quiz/answer', {method: 'POST', headers, body}) and the
\* response
OpSubmitAnswer ==
  \E o \in Ops :
    \E t \in {ops[o].csrf} :
      LET req == Request(GateValidAnswer @@
                         [op |-> "answer", method |-> "POST",
                          token |-> Signed(ClientUser), csrf |-> t])
      IN /\ ops[o].pc = "fetched"
         /\ request' = req
         /\ SubmitAnswerRoute(req)
         /\ ops' = [ops EXCEPT ![o] = [pc |-> "done", csrf |-> t,
                                       status |-> last'.status,
                                       code |-> last'.code]]
         /\ UNCHANGED <<csrfToken, OpFrame>>

InitCsrf ==
  /\ quizSessions = <<StartedSession>>
  /\ userAnswers = <<>>
  /\ userProgress = <<>>
  /\ storeKeepsNaN \in BOOLEAN
  /\ last = NoResponse
  /\ users = {UserRow(u) : u \in Users}
  /\ jwtSecret = TRUE
  /\ csrfToken = NoToken
  /\ inflight = [r \in Requests |-> Idle]
  /\ request = NoRequest
  /\ client = initialClient
  /\ auth = initialAuth
  /\ ops = initialOps

NextCsrf ==
  \/ OpAddCSRFToken
  \/ OpSubmitAnswer

SpecCsrf == InitCsrf /\ [][NextCsrf]_vars

\* SpecAuth: AuthProvider in one browser. localStorage holds no token, a
\* token of u1 or an expired one when the provider mounts; u1 is
\* registered, u2 is not. A call that awaits a response is parked in
\* auth.pending with what it sent, and its response arrives in its own
\* step, in any order with the other calls and with logout. The requests
\* are admitted by the limiter and the csrf check.
authFrame == <<jwtSecret, csrfToken, inflight, client, ops>>
authStore == <<quizSessions, userAnswers, userProgress, storeKeepsNaN>>

\* the call awaits: it is parked with the request it has sent
Await(call) == [auth EXCEPT !.pending = @ \cup {call}]
Parked(kind) == {p \in auth.pending : p.op = kind}
Call(fields) ==
  fields @@ [op |-> "", token |-> NoBearer, email |-> "", matches |-> FALSE]

\* POST /api/auth/login with AuthService.login; matches: bcrypt.compare of
\* the password sent with the hash stored
Login(email, matches) ==
  LET user == getUserByEmail(email)
  IN /\ last' = IF user = {} \/ ~matches
                   THEN Respond([op |-> "login", status |-> 401,
                                 code |-> "LOGIN_FAILED",
                                 message |-> "Invalid email or password"])
                   ELSE Respond([op |-> "login", status |-> 200,
                                 user |-> (CHOOSE u \in user : TRUE).id])
     /\ UNCHANGED <<authStore, users>>

\* POST /api/auth/register with AuthService.register
Register(email) ==
  LET existingUser == getUserByEmail(email)
      user == CHOOSE u \in {UserRow(x) : x \in Users} : u.email = email
  IN IF existingUser # {}
        THEN /\ last' = Respond([op |-> "register", status |-> 400,
                                 code |-> "REGISTRATION_FAILED",
                                 message |->
                                   "User already exists with this email"])
             /\ UNCHANGED <<authStore, users>>
        ELSE /\ users' = users \cup {user}
             /\ last' = Respond([op |-> "register", status |-> 201,
                                 user |-> user.id])
             /\ UNCHANGED authStore

\* useEffect(() => { checkAuthStatus() }, []), up to its await
AuthCheckAuthStatus ==
  /\ ~auth.mounted
  /\ auth' = IF auth.token = NoBearer
                THEN [auth EXCEPT !.mounted = TRUE, !.isLoading = FALSE]
                ELSE [Await(Call([op |-> "check", token |-> auth.token]))
                        EXCEPT !.mounted = TRUE]
  /\ UNCHANGED <<authStore, last, users, request, authFrame>>

\* checkAuthStatus after its await: the response to GET /api/user/profile
AuthCheckResponse ==
  \E p \in Parked("check") :
    LET req == Request([op |-> "profile", method |-> "GET",
                        token |-> p.token])
        rest == [auth EXCEPT !.pending = @ \ {p}, !.isLoading = FALSE]
    IN /\ request' = req
       /\ GetProfileRoute(req)
       /\ auth' = IF Ok(last')
                     THEN [rest EXCEPT !.user = getUser(last'.user)]
                     ELSE [rest EXCEPT !.token = NoBearer]
       /\ UNCHANGED <<users, authFrame>>

\* login(email, password), up to its await
AuthLogin ==
  \E u \in Users, matches \in BOOLEAN :
    /\ Cardinality(auth.pending) < MaxPending
    /\ auth' = Await(Call([op |-> "login", email |-> UserRow(u).email,
                           matches |-> matches]))
    /\ UNCHANGED <<authStore, last, users, request, authFrame>>

\* login after its await: setAuthToken and setUser on response.ok
AuthLoginResponse ==
  \E p \in Parked("login") :
    LET rest == [auth EXCEPT !.pending = @ \ {p}]
    IN /\ request' = Request([op |-> "login", method |-> "POST",
                              email |-> p.email])
       /\ Login(p.email, p.matches)
       /\ auth' = IF Ok(last')
                     THEN [rest EXCEPT !.token = Signed(last'.user),
                                       !.user = getUser(last'.user)]
                     ELSE rest
       /\ UNCHANGED authFrame

\* register(email, ...), up to its await
AuthRegister ==
  \E u \in Users :
    /\ Cardinality(auth.pending) < MaxPending
    /\ auth' = Await(Call([op |-> "register", email |-> UserRow(u).email]))
    /\ UNCHANGED <<authStore, last, users, request, authFrame>>

\* register after its await
AuthRegisterResponse ==
  \E p \in Parked("register") :
    LET rest == [auth EXCEPT !.pending = @ \ {p}]
    IN /\ request' = Request([op |-> "register", method |-> "POST",
                              email |-> p.email])
       /\ Register(p.email)
       /\ auth' = IF Ok(last')
                     THEN [rest EXCEPT !.token = Signed(last'.user),
                                       !.user = {u \in users' :
                                                  u.id = last'.user}]
                     ELSE rest
       /\ UNCHANGED authFrame

\* refreshUser(), up to its await
AuthRefreshUser ==
  /\ auth.token # NoBearer
  /\ Cardinality(auth.pending) < MaxPending
  /\ auth' = Await(Call([op |-> "refresh", token |-> auth.token]))
  /\ UNCHANGED <<authStore, last, users, request, authFrame>>

\* refreshUser after its await: setUser on response.ok, else nothing
AuthRefreshResponse ==
  \E p \in Parked("refresh") :
    LET req == Request([op |-> "profile", method |-> "GET",
                        token |-> p.token])
        rest == [auth EXCEPT !.pending = @ \ {p}]
    IN /\ request' = req
       /\ GetProfileRoute(req)
       /\ auth' = IF Ok(last')
                     THEN [rest EXCEPT !.user = getUser(last'.user)]
                     ELSE rest
       /\ UNCHANGED <<users, authFrame>>

\* logout(): removeAuthToken(); setUser(null)
AuthLogout ==
  /\ auth' = [auth EXCEPT !.token = NoBearer, !.user = {}]
  /\ UNCHANGED <<authStore, last, users, request, authFrame>>

InitAuth ==
  /\ quizSessions = <<>>
  /\ userAnswers = <<>>
  /\ userProgress = <<>>
  /\ storeKeepsNaN = FALSE
  /\ last = NoResponse
  /\ users = {UserRow("u1")}
  /\ jwtSecret = TRUE
  /\ csrfToken = IssuedToken
  /\ inflight = [r \in Requests |-> Idle]
  /\ request = NoRequest
  /\ client = initialClient
  /\ \E token \in {NoBearer, Signed("u1"),
                   [kind |-> "expired", userId |-> Anon]} :
       auth = [initialAuth EXCEPT !.token = token]
  /\ ops = initialOps

NextAuth ==
  \/ AuthCheckAuthStatus
  \/ AuthCheckResponse
  \/ AuthLogin
  \/ AuthLoginResponse
  \/ AuthRegister
  \/ AuthRegisterResponse
  \/ AuthRefreshUser
  \/ AuthRefreshResponse
  \/ AuthLogout

SpecAuth == InitAuth /\ [][NextAuth]_vars

\* ================================================================ claims
\* What the claims read off a state, written without the store's queries.
ActiveIds(u, t) ==
  {i \in 1..Len(quizSessions) :
     /\ quizSessions[i].userId = u
     /\ quizSessions[i].topicId = t
     /\ quizSessions[i].isActive}

RowsOfPair(u, t) ==
  {i \in 1..Len(quizSessions) :
     quizSessions[i].userId = u /\ quizSessions[i].topicId = t}

ReturnedIds(r) == {x.id : x \in r.session}

AnswerRows(s) == {j \in 1..Len(userAnswers) : userAnswers[j].sessionId = s}

CorrectRows(s) == {j \in AnswerRows(s) : userAnswers[j].isCorrect}

ProgressRows(u, t) ==
  {i \in 1..Len(userProgress) :
     userProgress[i].userId = u /\ userProgress[i].topicId = t}

RECURSIVE TimeOfRows(_)
TimeOfRows(S) ==
  IF S = {} THEN 0
  ELSE LET j == CHOOSE x \in S : TRUE
       IN (IF userAnswers[j].timeSpent < 0 THEN 0
           ELSE userAnswers[j].timeSpent) + TimeOfRows(S \ {j})

\* r is 100 * c / t rounded to the nearest integer, a half going up
IsRoundedPercent(r, c, t) ==
  /\ 2 * t * r <= 200 * c + t
  /\ 200 * c + t < 2 * t * (r + 1)

Started(r, u, t) ==
  /\ r.op = "start"
  /\ r.user = u
  /\ r.topicId = t
  /\ r.status \in {200, 201}

\* C1: idempotent session start. A successful StartSession(u, t) returns
\* the active session of (u, t); when one exists already it returns that
\* one and creates no row, otherwise it creates exactly one row; and no
\* request other than a CompleteSession changes which session is the active
\* one of (u, t). Hence two StartSession(u, t) calls with no completion in
\* between return the same id and create one row between them.
C1_IdempotentStart ==
  [][\A u \in Users, t \in TopicIds :
       /\ Started(last', u, t) =>
            /\ ReturnedIds(last') = ActiveIds(u, t)'
            /\ Cardinality(ReturnedIds(last')) = 1
            /\ ActiveIds(u, t) # {} =>
                 /\ ReturnedIds(last') = ActiveIds(u, t)
                 /\ quizSessions' = quizSessions
            /\ ActiveIds(u, t) = {} =>
                 /\ Len(quizSessions') = Len(quizSessions) + 1
                 /\ RowsOfPair(u, t)' = RowsOfPair(u, t)
                                          \cup {Len(quizSessions')}
       /\ (Started(last, u, t) /\ Started(last', u, t)) =>
            /\ ReturnedIds(last') = ReturnedIds(last)
            /\ quizSessions' = quizSessions
       /\ (last'.op # "complete" /\ ActiveIds(u, t) # {}) =>
            ActiveIds(u, t)' = ActiveIds(u, t)
    ]_vars

\* a second StartSession has returned the one session of (u1, iam), after
\* an answer was recorded on it
C1_Witness ==
  /\ Started(last, "u1", "iam")
  /\ last.status = 200
  /\ ReturnedIds(last) = {1}
  /\ RowsOfPair("u1", "iam") = {1}
  /\ AnswerRows(1) # {}

\* C2: answer-count cursor. Every successful SubmitAnswer appends exactly
\* one UserAnswer row, to the session it names, and leaves that session's
\* currentQuestionIndex equal to the number of rows of the session; no
\* other request changes a row count or a cursor. So after N successful
\* calls on a session its cursor is N.
C2_CursorIsAnswerCount ==
  [][/\ \A s \in SessionIds :
          (last'.op = "answer" /\ last'.status = 200
             /\ last'.sessionId = s) =>
             /\ Cardinality(AnswerRows(s)') = Cardinality(AnswerRows(s)) + 1
             /\ Len(userAnswers') = Len(userAnswers) + 1
             /\ quizSessions'[s].currentQuestionIndex
                  = Cardinality(AnswerRows(s)')
             /\ \A x \in last'.session :
                  x.currentQuestionIndex = Cardinality(AnswerRows(s)')
     /\ ~(last'.op = "answer" /\ last'.status = 200) =>
          userAnswers' = userAnswers
     /\ \A i \in 1..Len(quizSessions') :
          quizSessions'[i].currentQuestionIndex
            = Cardinality(AnswerRows(i)')
    ]_vars

\* two answers on session 2, none on session 1
C2_Witness ==
  /\ last.op = "answer"
  /\ last.status = 200
  /\ last.sessionId = 2
  /\ Cardinality(AnswerRows(2)) = 2
  /\ quizSessions[2].currentQuestionIndex = 2
  /\ quizSessions[1].currentQuestionIndex = 0

\* C3: correctness derivation. A successful SubmitAnswer for question q
\* with selected index k returns isCorrect = TRUE exactly when k is q's
\* correct-answer index, and the row it stores carries q, k and the same
\* isCorrect.
C3_CorrectIffSelectedIsKey ==
  (last.op = "answer" /\ last.status = 200) =>
    LET row == userAnswers[Len(userAnswers)]
        k == questions[last.questionId].correctAnswer
    IN /\ last.isCorrect <=> (last.selectedAnswer = k)
       /\ row.questionId = last.questionId
       /\ row.selectedAnswer = last.selectedAnswer
       /\ row.isCorrect = last.isCorrect
       /\ last.correctAnswer = k

\* q2 answered with its correct index 1
C3_Witness ==
  /\ last.op = "answer"
  /\ last.status = 200
  /\ last.questionId = "q2"
  /\ last.selectedAnswer = 1
  /\ last.isCorrect
  /\ userAnswers[Len(userAnswers)].isCorrect

C6_NoAnswerLeak ==
  (last.op = "questions") =>
    /\ last.status = 200
    /\ \A i \in 1..Len(last.questions) :
         /\ last.questions[i].correctAnswer = Undefined
         /\ last.questions[i].explanation = UndefinedText
    /\ {last.questions[i].id : i \in 1..Len(last.questions)}
         = {q \in QuestionKeys : questions[q].topicId = last.topicId}
    /\ Len(last.questions)
         = Cardinality({q \in QuestionKeys :
                          questions[q].topicId = last.topicId})

\* the two questions of iam listed for an anonymous caller after an answer
\* was submitted
C6_Witness ==
  /\ last.op = "questions"
  /\ last.user = Anon
  /\ Len(last.questions) = 2
  /\ userAnswers # <<>>

\* C7: progress upsert creates or updates. There is at most one
\* UserProgress row per (user, topic); a successful CompleteSession whose
\* (caller, topic) has no row inserts one, and one whose pair has a row
\* updates that row, keeping its id and the number of rows; no other
\* request changes the progress table.
C7_OneProgressRowPerPair ==
  [][/\ \A u \in Users, t \in TopicKeys :
          Cardinality(ProgressRows(u, t)') <= 1
     /\ \A i \in 1..Len(userProgress') : userProgress'[i].id = i
     /\ \A u \in Users, t \in TopicKeys :
          (last'.op = "complete" /\ last'.status = 200 /\ last'.user = u
             /\ quizSessions'[last'.sessionId].topicId = t) =>
             /\ Cardinality(ProgressRows(u, t)') = 1
             /\ ProgressRows(u, t) # {} =>
                  /\ ProgressRows(u, t)' = ProgressRows(u, t)
                  /\ Len(userProgress') = Len(userProgress)
             /\ ProgressRows(u, t) = {} =>
                  /\ Len(userProgress') = Len(userProgress) + 1
                  /\ ProgressRows(u, t)' = {Len(userProgress')}
     /\ ~(last'.op = "complete" /\ last'.status = 200) =>
          userProgress' = userProgress
    ]_vars

\* two sessions of (u1, iam) completed, the second with another score, and
\* one progress row for the pair, next to the row of (u1, s3)
C7_Witness ==
  /\ Len(quizSessions) = 2
  /\ RowsOfPair("u1", "iam") = {1, 2}
  /\ ActiveIds("u1", "iam") = {}
  /\ quizSessions[1].score # quizSessions[2].score
  /\ Cardinality(ProgressRows("u1", "iam")) = 1
  /\ last.op = "complete"
  /\ last.status = 200
  /\ last.sessionId = 2

\* C8: best score is monotonic. The bestScore of a UserProgress row never
\* decreases (steps in which either value is the NaN of a completion
\* without answers are left aside).
C8_BestScoreNeverDecreases ==
  [][\A i \in 1..Len(userProgress) :
       (userProgress[i].bestScore # NaN /\ userProgress'[i].bestScore # NaN)
         => userProgress'[i].bestScore >= userProgress[i].bestScore
    ]_vars

\* C9: aggregated progress fields. After a successful CompleteSession on a
\* session with t answers, c correct, the progress row of (caller,
\* session's topic) has totalQuestions = completedQuestions =
\* lastQuestionIndex = t, correctAnswers = c, isCompleted = TRUE and
\* timeSpent = the sum of the answers' timeSpent; in every progress row
\* correctAnswers <= completedQuestions.
C9_ProgressFields ==
  /\ (last.op = "complete" /\ last.status = 200) =>
       LET s == last.sessionId
           t == Cardinality(AnswerRows(s))
           c == Cardinality(CorrectRows(s))
           rows == ProgressRows(last.user, quizSessions[s].topicId)
       IN /\ rows # {}
          /\ \A i \in rows :
               /\ userProgress[i].totalQuestions = t
               /\ userProgress[i].completedQuestions = t
               /\ userProgress[i].lastQuestionIndex = t
               /\ userProgress[i].correctAnswers = c
               /\ userProgress[i].isCompleted
               /\ userProgress[i].timeSpent = TimeOfRows(AnswerRows(s))
  /\ \A i \in 1..Len(userProgress) :
       userProgress[i].correctAnswers <= userProgress[i].completedQuestions

\* three answers completed: one right with no timeSpent sent, two wrong
\* with 3 seconds each
C9_Witness ==
  /\ last.op = "complete"
  /\ last.status = 200
  /\ Cardinality(AnswerRows(1)) = 3
  /\ Cardinality(CorrectRows(1)) = 1
  /\ ~userAnswers[3].isCorrect
  /\ userProgress[1].timeSpent = 6
  /\ userProgress[1].correctAnswers = 1
  /\ userProgress[1].totalQuestions = 3

\* C10: StartSession with a topicId that references no topic signals
\* NotFound (404) and creates no session row.
C10_UnknownTopicNotFound ==
  (last.op = "start" /\ last.topicId \notin TopicKeys) =>
    /\ last.status = 404
    /\ \A i \in 1..Len(quizSessions) : quizSessions[i].topicId \in TopicKeys

\* C11: a SubmitAnswer whose questionId references no existing question is
\* answered 404 QUESTION_NOT_FOUND, appends no UserAnswer row and leaves
\* every session row, the cursor included, as it was.
C11_UnknownQuestionNotFound ==
  [][(last'.op = "answer" /\ last'.questionId \notin QuestionKeys)
       => /\ last'.status = 404
          /\ last'.code = "QUESTION_NOT_FOUND"
          /\ userAnswers' = userAnswers
          /\ quizSessions' = quizSessions]_vars

C11_Witness ==
  /\ last.op = "answer"
  /\ last.questionId = "qx"
  /\ last.status = 404
  /\ userAnswers = <<>>
  /\ quizSessions[1].currentQuestionIndex = 0

\* C12: a CompleteSession whose sessionId references no existing session
\* is answered 404 SESSION_NOT_FOUND.
C12_UnknownSessionNotFound ==
  (last.op = "complete" /\ last.sessionId \notin 1..Len(quizSessions))
    => /\ last.status = 404
       /\ last.code = "SESSION_NOT_FOUND"

\* C14: whenever a store call made by a handler of the content, quiz and
\* progress routes throws, the response is 500 INTERNAL_ERROR with the
\* fixed message of that handler, never the text of the error, and the
\* call is not made again: the table a failed write was aimed at is as it
\* was, and a failed read leaves the response without data.
GenericMessage(op) ==
  CASE op = "questions" -> "Failed to get questions"
    [] op = "start" -> "Failed to start quiz"
    [] op = "answer" -> "Failed to submit answer"
    [] op = "complete" -> "Failed to complete quiz"
    [] op = "progress" -> "Failed to get progress"

C14_StoreFailureIsGeneric ==
  [][last'.failed # ""
       => /\ last'.status = 500
          /\ last'.code = "INTERNAL_ERROR"
          /\ last'.message = GenericMessage(last'.op)
          /\ last'.message # StoreErrorText
          /\ last'.session = {} /\ last'.progress = <<>>
          /\ last'.questions = <<>> /\ last'.answers = <<>>
          /\ last'.failed \in {"createQuizSession", "updateQuizSession",
                               "completeQuizSession"}
               => quizSessions' = quizSessions
          /\ last'.failed = "saveUserAnswer" => userAnswers' = userAnswers
          /\ last'.failed = "upsertUserProgress"
               => userProgress' = userProgress]_vars

C14_Witness ==
  /\ last.op = "progress"
  /\ last.failed = "getUserProgress"
  /\ last.status = 500
  /\ last.message = "Failed to get progress"
  /\ userProgress # <<>>

\* C20: when a CompleteSession has completed the session row and the
\* progress upsert then throws, the caller gets 500 INTERNAL_ERROR, the
\* session stays completed (not active, score and completedAt set) and
\* the progress table is as it was before the request.
C20_NoRollback ==
  [][\A s \in 1..MaxFailSessions + 1 :
       (/\ last'.op = "complete"
        /\ last'.failed = "upsertUserProgress"
        /\ last'.sessionId = s)
       => /\ last'.status = 500
          /\ last'.code = "INTERNAL_ERROR"
          /\ quizSessions'[s].isActive = FALSE
          /\ quizSessions'[s].completedAt = Stamp
          /\ quizSessions'[s].score # Null
          /\ AnswerRows(s) # {}
               => IsRoundedPercent(quizSessions'[s].score,
                                   Cardinality(CorrectRows(s)),
                                   Cardinality(AnswerRows(s)))
          /\ userProgress' = userProgress]_vars

C20_Witness ==
  /\ last.op = "complete"
  /\ last.failed = "upsertUserProgress"
  /\ last.sessionId = 1
  /\ quizSessions[1].isActive = FALSE
  /\ quizSessions[1].score = 100
  /\ userProgress = <<>>

\* What the claims about the middleware chains read off a step.
ProtectedOps == {"progress", "start", "answer", "complete", "profile"}

ChainCodes ==
  {"TOKEN_REQUIRED", "TOKEN_INVALID", "INVALID_TOKEN", "CONFIG_ERROR",
   "VALIDATION_ERROR", "CSRF_INVALID"}

HandlerRan(r) == r.code \notin ChainCodes

Registered(r) == \E u \in users : u.id = r.token.userId

Answered(r, status, code) == r.status = status /\ r.code = code

NoData(r) ==
  /\ r.session = {} /\ r.progress = <<>> /\ r.answers = <<>>
  /\ r.questions = <<>> /\ r.score = Null

DataUntouched ==
  /\ UNCHANGED <<quizSessions, userAnswers, userProgress>>
  /\ NoData(last')

\* C13: the handler of a protected route runs only for a request whose
\* token verifies and whose user exists; no token is answered 401
\* 'Access token required' TOKEN_REQUIRED, an unverifiable token 403
\* TOKEN_INVALID, a valid token for a missing user 401 INVALID_TOKEN, and
\* in these three cases no quiz or progress data is read or written.
C13_AuthenticationGate ==
  [][request'.op \in ProtectedOps
       => /\ HandlerRan(last')
               => request'.token.kind = "signed" /\ Registered(request')
          /\ request'.token.kind = "none"
               => /\ Answered(last', 401, "TOKEN_REQUIRED")
                  /\ last'.message = "Access token required"
                  /\ DataUntouched
          /\ request'.token.kind \in {"garbage", "expired"}
               => Answered(last', 403, "TOKEN_INVALID") /\ DataUntouched
          /\ request'.token.kind = "signed" /\ ~Registered(request')
               => Answered(last', 401, "INVALID_TOKEN") /\ DataUntouched
     ]_vars

\* C13 as amended: the same, with the two cases the gate adds. A request
\* that carries a token while JWT_SECRET is not set is answered 500
\* CONFIG_ERROR whatever the token; with the secret set, a token that
\* verifies is answered 403 TOKEN_INVALID when the user lookup itself
\* throws, and 401 INVALID_TOKEN only when the lookup finds no user. The
\* handler runs in none of these cases.
C13_AuthenticationGateAmended ==
  [][request'.op \in ProtectedOps
       => /\ HandlerRan(last')
               => /\ request'.token.kind = "signed"
                  /\ Registered(request')
                  /\ jwtSecret /\ ~request'.lookupFails
          /\ request'.token.kind = "none"
               => /\ Answered(last', 401, "TOKEN_REQUIRED")
                  /\ last'.message = "Access token required"
                  /\ DataUntouched
          /\ request'.token.kind # "none" /\ ~jwtSecret
               => Answered(last', 500, "CONFIG_ERROR") /\ DataUntouched
          /\ request'.token.kind \in {"garbage", "expired"} /\ jwtSecret
               => Answered(last', 403, "TOKEN_INVALID") /\ DataUntouched
          /\ request'.token.kind = "signed" /\ jwtSecret
                /\ request'.lookupFails
               => Answered(last', 403, "TOKEN_INVALID") /\ DataUntouched
          /\ request'.token.kind = "signed" /\ jwtSecret
                /\ ~request'.lookupFails /\ ~Registered(request')
               => Answered(last', 401, "INVALID_TOKEN") /\ DataUntouched
     ]_vars

C13_Witness ==
  /\ request.op = "progress"
  /\ request.token = Signed("u2")
  /\ Answered(last, 401, "INVALID_TOKEN")
  /\ userProgress # <<>>

\* C15: an authenticated SubmitAnswer whose body violates the schema (a
\* negative or non-integer selectedAnswer, a negative timeSpent, a
\* questionId or sessionId that is not UUID-shaped) is answered 400
\* VALIDATION_ERROR, no table is read for it or written (no answer row, no
\* cursor change); an authenticated StartQuiz with an empty topicId is
\* answered the same way and creates no session.
Authenticated(r) ==
  /\ jwtSecret
  /\ r.token.kind = "signed"
  /\ ~r.lookupFails
  /\ Registered(r)

ViolatesAnswerSchema(r) ==
  \/ r.questionId = MalformedKey
  \/ r.sessionId = MalformedId
  \/ r.selectedAnswer.t = "number"
       /\ (r.selectedAnswer.num < 0 \/ r.selectedAnswer.den # 1)
  \/ r.timeSpent.t = "number" /\ r.timeSpent.num < 0

C15_ValidationAtBoundary ==
  [][/\ (/\ request'.op = "answer"
         /\ Authenticated(request')
         /\ ViolatesAnswerSchema(request'))
        => Answered(last', 400, "VALIDATION_ERROR") /\ DataUntouched
     /\ (/\ request'.op = "start"
         /\ Authenticated(request')
         /\ request'.topicId = "")
        => Answered(last', 400, "VALIDATION_ERROR") /\ DataUntouched
    ]_vars

C15_Witness ==
  /\ request.op = "answer"
  /\ Authenticated(request)
  /\ request.selectedAnswer = Num(3, 2)
  /\ request.csrf = csrfToken
  /\ Answered(last, 400, "VALIDATION_ERROR")
  /\ Len(quizSessions) = 1 /\ quizSessions[1].isActive
  /\ userAnswers = <<>>

\* C16: for every well-formed email, reset-password sends the same 200
\* response 'Password reset email sent if account exists', with the same
\* body whether or not a user with that email exists (and whether or not
\* the lookup throws), and changes no row of users.
C16_NoEmailEnumeration ==
  [][(request'.op = "reset" /\ request'.email # MalformedEmail)
       => /\ last' = [NoResponse EXCEPT
                        !.op = "reset", !.status = 200,
                        !.message =
                          "Password reset email sent if account exists"]
          /\ users' = users]_vars

C16_Witness ==
  /\ request.op = "reset"
  /\ request.email = UserRow("u2").email
  /\ ~request.lookupFails
  /\ \A u \in users : u.email # request.email
  /\ last.status = 200
  /\ last.message = "Password reset email sent if account exists"

\* no request is being served
AllFinished == \A r \in Requests : inflight[r].pc = "idle"

\* C17: when SubmitAnswer requests for one session run concurrently, once
\* they have all finished the session's cursor equals the number of
\* answer rows of the session.
C17_ConcurrentSubmissionsConverge ==
  AllFinished
    => \A s \in 1..Len(quizSessions) :
         quizSessions[s].currentQuestionIndex = Cardinality(AnswerRows(s))

\* C18: in every reachable state, states between the lookup and the
\* create of interleaved StartSession requests included, a (user, topic)
\* pair has at most one active session row.
C18_AtMostOneActiveSession ==
  \A u \in Users, t \in TopicKeys : Cardinality(ActiveIds(u, t)) <= 1

\* C19: when CompleteSession requests for one session interleave, once
\* they have all finished there is exactly one progress row for the
\* session's (user, topic).
C19_ConcurrentCompletionsOneRow ==
  AllFinished
    => \A s \in 1..Len(quizSessions) :
         ~quizSessions[s].isActive
           => Cardinality(ProgressRows(quizSessions[s].userId,
                                       quizSessions[s].topicId)) = 1

\* C21: a successful CompleteSession(s) leaves s not active, with a
\* completion timestamp and the computed score; a session that is not
\* active never becomes active again and no session row is ever deleted
\* or renumbered; a StartSession for a (user, topic) whose sessions are
\* all completed creates a session with a new id, cursor 0 and an empty
\* answers map, and no StartSession returns a completed session.
C21_CompletionEndsSession ==
  [][/\ \A s \in SessionIds :
          (/\ last'.op = "complete" /\ last'.status = 200
           /\ last'.sessionId = s)
          => /\ ~quizSessions'[s].isActive
             /\ quizSessions'[s].completedAt = Stamp
             /\ quizSessions'[s].score = last'.score
             /\ AnswerRows(s) # {}
                  => IsRoundedPercent(quizSessions'[s].score,
                                      Cardinality(CorrectRows(s)),
                                      Cardinality(AnswerRows(s)))
     /\ Len(quizSessions') >= Len(quizSessions)
     /\ \A s \in 1..Len(quizSessions) :
          /\ quizSessions'[s].id = s
          /\ quizSessions'[s].userId = quizSessions[s].userId
          /\ quizSessions'[s].topicId = quizSessions[s].topicId
          /\ ~quizSessions[s].isActive => ~quizSessions'[s].isActive
     /\ \A u \in Users, t \in TopicKeys :
          (/\ last'.op = "start" /\ last'.user = u /\ last'.topicId = t
           /\ RowsOfPair(u, t) # {} /\ ActiveIds(u, t) = {})
          => /\ last'.status = 201
             /\ Len(quizSessions') = Len(quizSessions) + 1
             /\ \A r \in last'.session :
                  /\ r.id = Len(quizSessions')
                  /\ r.id \notin RowsOfPair(u, t)
                  /\ r.currentQuestionIndex = 0
                  /\ r.answers = <<>>
                  /\ r.isActive
                  /\ quizSessions'[r.id] = r
     /\ last'.op = "start" => \A r \in last'.session : r.isActive
    ]_vars

C21_Witness ==
  /\ last.op = "start" /\ last.status = 201 /\ last.topicId = "iam"
  /\ Len(quizSessions) = 2
  /\ ~quizSessions[1].isActive
  /\ quizSessions[1].topicId = "iam"
  /\ quizSessions[1].score = 100
  /\ quizSessions[2].isActive
  /\ quizSessions[2].currentQuestionIndex = 0

\* C22: after a successful SubmitAnswer(s, q, k) the answers map stored on
\* session s maps q to k.
C22_AnswersMapTracksSubmissions ==
  (last.op = "answer" /\ last.status = 200)
    => /\ last.questionId \in DOMAIN quizSessions[last.sessionId].answers
       /\ quizSessions[last.sessionId].answers[last.questionId]
            = last.selectedAnswer

\* C23: on a route guarded by csrfProtection a POST, PUT, DELETE or PATCH
\* request reaches the handler only if one of the tokens it carries
\* (x-csrf-token header, _csrf body field) equals the token stored in the
\* session; a request that gets as far as the check with no token, with a
\* session that holds none, or with no token equal to the session's, is
\* answered 403 CSRF_INVALID and no table is written; a request of any
\* other method passes the check.
SentTokens(r) == {r.csrf, r.csrfBody} \ {NoToken}

UnsafeMethods == {"POST", "PUT", "DELETE", "PATCH"}

ReachedCsrfCheck(r) == r.code \notin (ChainCodes \ {"CSRF_INVALID"})

C23_CsrfCheck ==
  [][/\ (/\ request'.op \in {"start", "answer", "complete", "guarded"}
         /\ request'.method \in UnsafeMethods)
        => /\ HandlerRan(last') => csrfToken \in SentTokens(request')
           /\ (/\ ReachedCsrfCheck(last')
               /\ \/ SentTokens(request') = {}
                  \/ csrfToken = NoToken
                  \/ csrfToken \notin SentTokens(request'))
              => /\ Answered(last', 403, "CSRF_INVALID")
                 /\ UNCHANGED <<quizSessions, userAnswers, userProgress>>
     /\ (request'.op = "guarded" /\ request'.method \notin UnsafeMethods)
        => HandlerRan(last') /\ last'.status = 200
    ]_vars

C23_Witness ==
  /\ request.op = "answer"
  /\ Authenticated(request)
  /\ ~ViolatesAnswerSchema(request)
  /\ request.csrf = IssuedToken
  /\ csrfToken = IssuedToken + 1
  /\ Answered(last, 403, "CSRF_INVALID")
  /\ Len(quizSessions) = 1 /\ quizSessions[1].isActive
  /\ userAnswers = <<>>

\* C24: a SubmitAnswer or CompleteSession issued by user u changes state
\* only for a session owned by u: every answer row belongs to the owner
\* of its session, a request that succeeded named a session of its
\* caller, and every progress row belongs to the owner of a session of
\* its topic.
C24_SessionOwnership ==
  /\ \A j \in 1..Len(userAnswers) :
       userAnswers[j].userId = quizSessions[userAnswers[j].sessionId].userId
  /\ (last.op \in {"answer", "complete"} /\ last.status = 200)
       => quizSessions[last.sessionId].userId = last.user
  /\ \A i \in 1..Len(userProgress) :
       RowsOfPair(userProgress[i].userId, userProgress[i].topicId) # {}

\* C25: in every reachable state the score stored on a completed session
\* is the rounded percentage of correct answers over the session's
\* current answer log (a session completed without answers, whose score
\* is 0 / 0, set aside).
C25_CompletedSessionsFrozen ==
  \A s \in 1..Len(quizSessions) :
    (~quizSessions[s].isActive /\ quizSessions[s].score \notin {Null, NaN})
      => /\ AnswerRows(s) # {}
         /\ IsRoundedPercent(quizSessions[s].score,
                             Cardinality(CorrectRows(s)),
                             Cardinality(AnswerRows(s)))

\* C26: every progress row written by a completion is filed under the
\* certification its topic belongs to.
C26_ProgressUnderTopicCertification ==
  \A i \in 1..Len(userProgress) :
    userProgress[i].certificationId
      = topics[userProgress[i].topicId].certificationId


\* C27: client completes a session at most once. For every session held in
\* client state, the results page issues the request for its completion
\* at most once, whatever the renders and whatever the responses.
C27_ClientCompletesOnce ==
  \A id \in DOMAIN client.completeRequests :
    client.completeRequests[id] <= 1

\* C28: client question index stays in range. In every state of the quiz
\* client reached through startQuiz, submitAnswer, goToQuestion,
\* resumeQuiz and resetQuiz, a non-empty question list has
\* 0 <= currentQuestionIndex < number of questions.
C28_ClientIndexInRange ==
  Len(client.state.questions) > 0 =>
    /\ client.state.currentQuestionIndex >= 0
    /\ client.state.currentQuestionIndex < Len(client.state.questions)


\* C29: overlapping client operations pass CSRF. Every state-changing
\* client operation fetches a fresh token right before its request, and
\* each such request is accepted by the CSRF check, also when the token
\* fetches and requests of two operations interleave.
C29_OverlappingOperationsPassCsrf ==
  \A o \in Ops : ops[o].pc = "done" => ops[o].code # "CSRF_INVALID"


\* C30: client auth state is consistent with the stored token. In every
\* state of AuthProvider, whatever the order in which the responses to
\* checkAuthStatus, login, register and refreshUser arrive and logout is
\* called, a non-null user implies that an auth token is stored.
C30_UserImpliesStoredToken ==
  auth.user # {} => auth.token # NoBearer

====
